---- MODULE Spec2Model ----
(***************************************************************************)
(* A model of pdf2zh's page translation engine                             *)
(* (src/pdf2zh/converter.py, TranslateConverter.receive_layout):           *)
(*   A. the scan of the page stream into paragraphs and formula groups,    *)
(*   B. the parallel translation of the paragraph templates,               *)
(*   C. the re-layout of the translated strings into draw operators.       *)
(* Strings are sequences of one-character strings, so that formatting,     *)
(* stripping and the regular expressions are computed, not assumed.        *)
(***************************************************************************)
EXTENDS Integers, Sequences, FiniteSets, TLC

(***************************************************************************)
(* Bounds of the model.                                                    *)
(***************************************************************************)
MaxTemplates == 3
MaxThread == 2
MaxFail == 2
MaxCalls == 4          \* calls of translate in one run
MaxText == 5           \* characters of a Markdown text
MaxPromote == 2        \* applications of the heading promotion
MaxEntries == 2        \* footnote entries of a document
MaxRefLines == 3       \* lines of the reference Markdown
MaxTransLines == 2     \* lines of the translated Markdown

VARIABLES
    \* B. translation dispatcher
    pc,             \* position of the main thread of receive_layout
    thread,         \* self.thread, the max_workers of the pool
    sstk,           \* paragraph templates, a list of strings
    fs,             \* the futures of executor.map, in submission order
    work_queue,     \* the executor's FIFO queue of work items (indices of sstk)
    threads,        \* the pool's worker threads: [st, item]
    idle_semaphore, \* the executor's count of threads that became idle
    news,           \* list(executor.map(...)): results gathered so far
    dead,           \* backend behaviour: templates on which translate always raises
    calls,          \* observer: backend calls made for each template index
    failed,         \* observer: backend calls that raised, per template index
    sent,           \* observer: texts handed to translate, per template index
    ret,            \* observer: value of the last successful translate, per index
    started,        \* observer: indices in the order workers took them
    finished,       \* observer: indices in the order their futures completed
    \* A. scan of the page stream
    nchild,         \* children of ltpage consumed so far
    pstk,           \* paragraph attributes, one Paragraph per template
    vbkt,           \* bracket depth inside formulas
    vstk,           \* glyphs of the open formula
    vlstk,          \* lines of the open formula
    vfix,           \* vertical offset of the open formula
    var,            \* formula groups: glyphs
    varl,           \* formula groups: lines
    varf,           \* formula groups: vertical offsets
    vlen,           \* formula groups: widths
    lstk,           \* lines of the page
    xt,             \* previous glyph
    xt_cls,         \* class of the previous glyph
    vertical_chars, \* buffered vertical glyphs
    vpar,           \* observer: paragraph in which the open formula began
    varp,           \* observer: paragraph in which each group was captured
    \* construction
    service,        \* the service argument of the constructor
    translator,     \* self.translator: [name, model]
    \* C. re-layout
    default_line_height, \* LANG_LINEHEIGHT_MAP[lang_out], in twentieths
    id,             \* index of the paragraph being laid out
    ptr,            \* position in the translated string
    cstk,           \* buffered run of characters
    fcur,           \* font of the buffered run
    fcur_,          \* font of the current element
    lidx,           \* line index inside the paragraph
    x,              \* cursor
    tx,             \* x of the first character of the buffered run
    ops_vals,       \* queued operators of the paragraph
    positions_queue, \* vertical paragraph: captured anchors still unused
    fallback_x,     \* vertical paragraph: last anchor, x
    fallback_y,     \* vertical paragraph: last anchor, y in half units
    ops_list,       \* the draw operators emitted so far
    \* D. translator cache
    cache,          \* stored translations: [params, text, translation]
    auto_n,         \* AutoIncreaseTranslator.n
    ignore_cache,   \* the translator's attribute
    params,         \* cache-impact parameters added so far
    call,           \* the latest call of translate
    result,         \* what it returned
    ncall,          \* calls of translate so far
    \* E. Markdown export
    markdown_text,  \* the text to be written
    promoted,       \* applications of the heading promotion
    markdown_footnotes, \* the footnote mode asked for
    collected,      \* the footnote entries the renderer returned
    md_file,        \* the .md file
    \* G. Markdown merge
    ref_lines,      \* reference_text.splitlines()
    trans_lines,    \* translated_text.splitlines()
    ref_idx,        \* index of the next reference line, from 0
    trans_idx,      \* index of the next translated line, from 0
    merged_lines,   \* the output lines so far
    merged_from     \* observer: the lines each output line was made from

dispVars == <<pc, thread, sstk, fs, work_queue, threads, idle_semaphore, news,
              dead, calls, failed, sent, ret, started, finished>>

\* the variables of the scan and of the re-layout
scanVars == <<nchild, pstk, vbkt, vstk, vlstk, vfix, var, varl, varf, vlen, lstk,
              xt, xt_cls, vertical_chars, vpar, varp>>
layVars == <<default_line_height, id, ptr, cstk, fcur, fcur_, lidx, x, tx, ops_vals,
             positions_queue, fallback_x, fallback_y, ops_list>>
pageVars == <<scanVars, layVars>>

ctorVars == <<service, translator>>

\* the translator's cache and the test translator's counter
cacheVars == <<cache, auto_n, ignore_cache, params, call, result, ncall>>

\* the Markdown export
mdVars == <<markdown_text, promoted, markdown_footnotes, collected, md_file>>

\* the merge of the reference and the translated Markdown
mergeVars == <<ref_lines, trans_lines, ref_idx, trans_idx, merged_lines, merged_from>>

sideVars == <<ctorVars, cacheVars, mdVars, mergeVars>>

vars == <<dispVars, pageVars, sideVars>>

(***************************************************************************)
(* Strings.                                                                *)
(***************************************************************************)
Min(a, b) == IF a < b THEN a ELSE b
Max(a, b) == IF a > b THEN a ELSE b

\* str.isspace for the characters of the model's alphabets
IsSpace(c) == c \in {" ", "\t", "\n"}

\* \d of the regular expressions
IsDigit(c) == c \in {"0", "1", "2", "3", "4", "5", "6", "7", "8", "9"}

RECURSIVE LStrip(_)
LStrip(s) == IF s # <<>> /\ IsSpace(Head(s)) THEN LStrip(Tail(s)) ELSE s

RECURSIVE RStrip(_)
RStrip(s) ==
    IF s # <<>> /\ IsSpace(s[Len(s)]) THEN RStrip(SubSeq(s, 1, Len(s) - 1)) ELSE s

\* str.strip()
Strip(s) == RStrip(LStrip(s))

\* re.match(r"^\{v\d+\}$", s): "$" also matches before one trailing newline
MatchWholePlaceholderPrefixOnly(s) ==
    /\ Len(s) >= 4
    /\ s[1] = "{" /\ s[2] = "v" /\ IsDigit(s[3])
    /\ \E e \in 4..Len(s) : /\ s[e] = "}"
                            /\ \A i \in 3..(e - 1) : IsDigit(s[i])

MatchWholePlaceholder(s) ==
    LET body == IF s # <<>> /\ s[Len(s)] = "\n" THEN SubSeq(s, 1, Len(s) - 1) ELSE s
    IN  /\ Len(body) >= 4
        /\ body[1] = "{" /\ body[2] = "v" /\ body[Len(body)] = "}"
        /\ \A i \in 3..(Len(body) - 1) : IsDigit(body[i])

Abs(n) == IF n < 0 THEN -n ELSE n
Last(s) == s[Len(s)]
SetMax(S) == CHOOSE m \in S : \A k \in S : k <= m
SetMin(S) == CHOOSE m \in S : \A k \in S : m <= k
Reverse(s) == [k \in 1..Len(s) |-> s[Len(s) + 1 - k]]

\* str(n) for the group numbers: decimal digits
DigitOf(d) == <<"0", "1", "2", "3", "4", "5", "6", "7", "8", "9">>[d + 1]
RECURSIVE Str(_)
Str(n) == IF n < 10 THEN <<DigitOf(n)>> ELSE Str(n \div 10) \o <<DigitOf(n % 10)>>

\* f"{{v{len(var)}}}"
Placeholder(n) == <<"{", "v">> \o Str(n) \o <<"}">>

(***************************************************************************)
(* A. Scan of the page stream.                                             *)
(* A glyph is [text, x0, x1, y0, y1, size, fontname, matrix]; its text is  *)
(* one character.  The named characters stand for the bullet U+2022, the   *)
(* Greek alpha, the plus sign and the modifier circumflex U+02C6.          *)
(***************************************************************************)
\* ltpage.width and the shape of the label map
PageWidth == 80
PageHeight == 60
VERTICAL_X_THRESHOLD == 2

\* the label map of the page: class 0 above y = 40, two body regions below
LayoutAt(cx, cy) == IF cy >= 40 THEN 0 ELSE IF cx >= 60 THEN 3 ELSE 2

\* np.clip(int(v), 0, n - 1)
Clip(v, n) == IF v < 0 THEN 0 ELSE IF v > n - 1 THEN n - 1 ELSE v

LayoutClass(x0, y0) == LayoutAt(Clip(x0, PageWidth), Clip(y0, PageHeight))

\* unicodedata.category of the characters of the model
Category(c) ==
    CASE c = " " -> "Zs"
      [] c = "\t" -> "Cc"
      [] c = "\n" -> "Cc"
      [] c = "(" -> "Ps"
      [] c = "{" -> "Ps"
      [] c = ")" -> "Pe"
      [] c = "}" -> "Pe"
      [] c = "bullet" -> "Po"
      [] c = "plus" -> "Sm"
      [] c = "hat" -> "Lm"
      [] IsDigit(c) -> "Nd"
      [] OTHER -> "Ll"

\* ord(char[0]) in range(0x370, 0x400)
IsGreek(c) == c = "alpha"

\* the font names of the model that the built-in regex of vflag matches,
\* after font.split("+")[-1]
FontTail(font) == IF font = "ABCDEF+CMSY10" THEN "CMSY10" ELSE font
FontIsFormula(font) == FontTail(font) \in {"CMMI10", "CMSY10"}

\* vflag with self.vfont and self.vchar unset; no glyph of the model is an
\* undecoded "(cid:" text
vflag(font, char) ==
    \/ FontIsFormula(font)
    \/ /\ char # " "
       /\ \/ Category(char) \in {"Lm", "Mn", "Sk", "Sm", "Zl", "Zp", "Zs"}
          \/ IsGreek(char)

is_vertical_glyph(char) == char.matrix[1] = 0 /\ char.matrix[4] = 0

NoGlyph == [text |-> "none"]

\* Paragraph(y, x, x0, x1, y0, y1, size, brk, vertical=..., ...)
Paragraph(py, px, x0, x1, y0, y1, size, brk, vertical, dir, positions, spacing) ==
    [y |-> py, x |-> px, x0 |-> x0, x1 |-> x1, y0 |-> y0, y1 |-> y1, size |-> size,
     brk |-> brk, vertical |-> vertical, vertical_direction |-> dir,
     vertical_positions |-> positions, vertical_spacing |-> spacing]

\* the scan state as one value, so that the steps of the loop body compose
ScanState ==
    [sstk |-> sstk, pstk |-> pstk, vbkt |-> vbkt, vstk |-> vstk, vlstk |-> vlstk,
     vfix |-> vfix, var |-> var, varl |-> varl, varf |-> varf, lstk |-> lstk,
     xt |-> xt, xt_cls |-> xt_cls, vertical_chars |-> vertical_chars,
     vpar |-> vpar, varp |-> varp]

\* s[-1] += t on a list of strings
AddToLast(stk, t) == [stk EXCEPT ![Len(stk)] = @ \o t]

\* sorted(vertical_chars, key=lambda ch: (-ch.y0, ch.x0)): a stable sort
VKeyLess(a, b) == a.y0 > b.y0 \/ (a.y0 = b.y0 /\ a.x0 < b.x0)
RECURSIVE InsertSorted(_, _)
InsertSorted(s, g) ==
    IF s = <<>> THEN <<g>>
    ELSE IF VKeyLess(g, Last(s))
         THEN Append(InsertSorted(SubSeq(s, 1, Len(s) - 1), g), Last(s))
         ELSE Append(s, g)
RECURSIVE SortVertical(_)
SortVertical(s) ==
    IF s = <<>> THEN <<>>
    ELSE InsertSorted(SortVertical(SubSeq(s, 1, Len(s) - 1)), Last(s))

\* statistics.median of a list of integers, times two
RECURSIVE SortInts(_)
SortInts(s) ==
    IF s = <<>> THEN <<>>
    ELSE LET m == SetMin({s[k] : k \in 1..Len(s)})
             k0 == CHOOSE k \in 1..Len(s) : s[k] = m
         IN  <<m>> \o SortInts(SubSeq(s, 1, k0 - 1) \o SubSeq(s, k0 + 1, Len(s)))
Median2(s) ==
    LET o == SortInts(s)
        n == Len(s)
    IN  IF n % 2 = 1 THEN 2 * o[(n + 1) \div 2] ELSE o[n \div 2] + o[n \div 2 + 1]

\* "".join(ch.get_text() for ch in chars)
JoinText(chars) == [k \in 1..Len(chars) |-> chars[k].text]

\* the flush that takes every run for a downward one
flush_vertical_charsDown(st) ==
    IF st.vertical_chars = <<>> THEN st
    ELSE
      LET vc == st.vertical_chars
          text_chars == SortVertical(vc)
          text == Strip(JoinText(text_chars))
          idx == 1..Len(vc)
          positions == [k \in 1..Len(text_chars) |->
                            <<text_chars[k].x0, text_chars[k].y0>>]
          spacing == IF Len(text_chars) > 1
                     THEN Median2([k \in 1..(Len(text_chars) - 1) |->
                                     Abs(text_chars[k + 1].y0 - text_chars[k].y0)])
                     ELSE 2 * (text_chars[1].y1 - text_chars[1].y0)
      IN  IF text # <<>>
          THEN [st EXCEPT
                  !.sstk = Append(@, text),
                  !.pstk = Append(@, Paragraph(text_chars[1].y0, text_chars[1].x0,
                                       SetMin({vc[k].x0 : k \in idx}),
                                       SetMax({vc[k].x1 : k \in idx}),
                                       SetMin({vc[k].y0 : k \in idx}),
                                       SetMax({vc[k].y1 : k \in idx}),
                                       SetMax({vc[k].size : k \in idx}), FALSE, TRUE, -1,
                                       positions, spacing)),
                  !.vertical_chars = <<>>]
          ELSE [st EXCEPT !.vertical_chars = <<>>]

\* flush_vertical_chars.  vertical_spacing is kept in half units, the unit
\* of the median of integer distances.
flush_vertical_chars(st) ==
    IF st.vertical_chars = <<>> THEN st
    ELSE
      LET vc == st.vertical_chars
          layout_chars == SortVertical(vc)
          matrix_dir == IF vc[1].matrix[2] = 0 THEN vc[1].matrix[3] ELSE vc[1].matrix[2]
          text_chars == IF matrix_dir > 0 THEN Reverse(layout_chars) ELSE layout_chars
          direction_sign == IF matrix_dir > 0 THEN 1 ELSE -1
          text == Strip(JoinText(text_chars))
          idx == 1..Len(vc)
          size == SetMax({vc[k].size : k \in idx})
          positions == [k \in 1..Len(text_chars) |->
                            <<text_chars[k].x0, text_chars[k].y0>>]
          spacing == IF Len(text_chars) > 1
                     THEN Median2([k \in 1..(Len(text_chars) - 1) |->
                                     Abs(text_chars[k + 1].y0 - text_chars[k].y0)])
                     ELSE 2 * (text_chars[1].y1 - text_chars[1].y0)
      IN  IF text # <<>>
          THEN [st EXCEPT
                  !.sstk = Append(@, text),
                  !.pstk = Append(@, Paragraph(text_chars[1].y0, text_chars[1].x0,
                                       SetMin({vc[k].x0 : k \in idx}),
                                       SetMax({vc[k].x1 : k \in idx}),
                                       SetMin({vc[k].y0 : k \in idx}),
                                       SetMax({vc[k].y1 : k \in idx}),
                                       size, FALSE, TRUE, direction_sign,
                                       positions, spacing)),
                  !.vertical_chars = <<>>]
          ELSE [st EXCEPT !.vertical_chars = <<>>]

\* inline formulas wider than a quarter of the page close the paragraph
vmax4(dx) == 4 * dx > PageWidth

\* child.size < pstk[-1].size * 0.79
Subscript(csize, psize) == 100 * csize < 79 * psize

\* "if child.get_text() == bullet: cls = 0"
ClassOf(child) ==
    IF child.text = "bullet" THEN 0 ELSE LayoutClass(child.x0, child.y0)

\* the formula test without the size rule
IsFormulaGlyphNoSize(st, child, cls) ==
    \/ cls = 0
    \/ vflag(child.fontname, child.text)

\* the formula test of the glyph, before the bracket rule
IsFormulaGlyph(st, child, cls) ==
    \/ cls = 0
    \/ /\ cls = st.xt_cls
       /\ Len(Strip(Last(st.sstk))) > 1
       /\ Subscript(child.size, Last(st.pstk).size)
    \/ vflag(child.fontname, child.text)

\* the bracket rule: [cur_v, vbkt] after the two tests
BracketRule(st, child, cur_v) ==
    IF cur_v THEN [cur_v |-> TRUE, vbkt |-> st.vbkt]
    ELSE LET open == st.vstk # <<>> /\ child.text = "("
             b1 == IF open THEN st.vbkt + 1 ELSE st.vbkt
             close == b1 # 0 /\ child.text = ")"
         IN  [cur_v |-> open \/ close, vbkt |-> IF close THEN b1 - 1 ELSE b1]

\* the test that ends the open formula (and the paragraph)
ClosesFormula(st, child, cls, cur_v) ==
    \/ ~cur_v
    \/ cls # st.xt_cls
    \/ (Last(st.sstk) # <<>> /\ vmax4(Abs(child.x0 - st.xt.x0)))

\* the group is recorded and the class of the previous glyph is kept
CloseGroupKeepClass(st, child, cls, cur_v) ==
    [st EXCEPT
       !.sstk = AddToLast(@, Placeholder(Len(st.var))),
       !.var = Append(@, st.vstk),
       !.varl = Append(@, st.vlstk),
       !.varf = Append(@, st.vfix),
       !.varp = Append(@, st.vpar),
       !.vstk = <<>>,
       !.vlstk = <<>>,
       !.vfix = 0]

\* "if vstk:" under the closing test: the group is recorded
CloseGroup(st, child, cls, cur_v) ==
    LET right == /\ ~cur_v
                 /\ cls = st.xt_cls
                 /\ child.x0 > SetMax({st.vstk[k].x0 : k \in 1..Len(st.vstk)})
        fix == IF right THEN st.vstk[1].y0 - child.y0 ELSE st.vfix
    IN  [st EXCEPT
           !.xt_cls = IF Last(st.sstk) = <<>> THEN -1 ELSE @,
           !.sstk = AddToLast(@, Placeholder(Len(st.var))),
           !.var = Append(@, st.vstk),
           !.varl = Append(@, st.vlstk),
           !.varf = Append(@, fix),
           !.varp = Append(@, st.vpar),
           !.vstk = <<>>,
           !.vlstk = <<>>,
           !.vfix = 0]

\* the glyph joins the paragraph or starts a new one; a wrap is not looked for
JoinOrNewNoWrap(st, child, cls) ==
    IF st.vstk # <<>> THEN st
    ELSE IF cls = st.xt_cls
         THEN IF child.x0 > st.xt.x1 + 1
              THEN [st EXCEPT !.sstk = AddToLast(@, <<" ">>)]
              ELSE st
         ELSE [st EXCEPT
                 !.sstk = Append(@, <<>>),
                 !.pstk = Append(@, Paragraph(child.y0, child.x0, child.x0, child.x0,
                                              child.y0, child.y1, child.size, FALSE,
                                              FALSE, 0, <<>>, 0))]

\* "if not vstk:": the glyph joins the paragraph or starts a new one
JoinOrNew(st, child, cls) ==
    IF st.vstk # <<>> THEN st
    ELSE IF cls = st.xt_cls
         THEN IF child.x0 > st.xt.x1 + 1
              THEN [st EXCEPT !.sstk = AddToLast(@, <<" ">>)]
              ELSE IF child.x1 < st.xt.x0
                   THEN [st EXCEPT !.sstk = AddToLast(@, <<" ">>),
                                   !.pstk[Len(st.pstk)].brk = TRUE]
                   ELSE st
         ELSE [st EXCEPT
                 !.sstk = Append(@, <<>>),
                 !.pstk = Append(@, Paragraph(child.y0, child.x0, child.x0, child.x0,
                                              child.y0, child.y1, child.size, FALSE,
                                              FALSE, 0, <<>>, 0))]

\* the size taken over without the correction of the anchor
PushTextKeepY(st, child) ==
    LET p == Last(st.pstk)
        bump == /\ (child.size > p.size \/ Len(Strip(Last(st.sstk))) = 1)
                /\ child.text # " "
        p1 == IF bump THEN [p EXCEPT !.size = child.size] ELSE p
    IN  [st EXCEPT !.pstk[Len(st.pstk)] = p1,
                   !.sstk = AddToLast(@, <<child.text>>)]

\* "if not cur_v:": the text is stacked, with the size correction
PushText(st, child) ==
    LET p == Last(st.pstk)
        bump == /\ (child.size > p.size \/ Len(Strip(Last(st.sstk))) = 1)
                /\ child.text # " "
        p1 == IF bump THEN [p EXCEPT !.y = @ - (child.size - p.size),
                                     !.size = child.size]
              ELSE p
    IN  [st EXCEPT !.pstk[Len(st.pstk)] = p1,
                   !.sstk = AddToLast(@, <<child.text>>)]

\* the glyph replaces the formula it should be stacked on
PushFormulaAlone(st, child, cls) ==
    LET left == st.vstk = <<>> /\ cls = st.xt_cls /\ child.x0 > st.xt.x0
    IN  [st EXCEPT !.vfix = IF left THEN child.y0 - st.xt.y0 ELSE @,
                   !.vpar = IF st.vstk = <<>> THEN Len(st.pstk) ELSE @,
                   !.vstk = <<child>>]

\* "else:": the glyph is stacked on the formula
PushFormula(st, child, cls) ==
    LET left == st.vstk = <<>> /\ cls = st.xt_cls /\ child.x0 > st.xt.x0
    IN  [st EXCEPT !.vfix = IF left THEN child.y0 - st.xt.y0 ELSE @,
                   !.vpar = IF st.vstk = <<>> THEN Len(st.pstk) ELSE @,
                   !.vstk = Append(@, child)]

\* the paragraph's bounding box takes the glyph in; the glyph becomes xt
Extend(st, child, cls) ==
    [st EXCEPT !.pstk[Len(st.pstk)] =
                   [@ EXCEPT !.x0 = Min(@, child.x0), !.x1 = Max(@, child.x1),
                             !.y0 = Min(@, child.y0), !.y1 = Max(@, child.y1)],
               !.xt = child,
               !.xt_cls = cls]

\* the loop body for a horizontal glyph, after the vertical buffer is flushed
CharStep(st0, child) ==
    LET st == flush_vertical_chars(st0)
        cls == ClassOf(child)
        br == BracketRule(st, child, IsFormulaGlyph(st, child, cls))
        cur_v == br.cur_v
        s1 == [st EXCEPT !.vbkt = br.vbkt]
        s2 == IF ClosesFormula(s1, child, cls, cur_v) /\ s1.vstk # <<>>
              THEN CloseGroup(s1, child, cls, cur_v)
              ELSE s1
        s3 == JoinOrNew(s2, child, cls)
        s4 == IF cur_v THEN PushFormula(s3, child, cls) ELSE PushText(s3, child)
    IN  Extend(s4, child, cls)

\* the loop body for a vertical glyph that never flushes on a jump of x0
VerticalStepNoJump(st, child) ==
    [st EXCEPT !.vertical_chars = Append(@, child)]

\* the loop body for a vertical glyph
VerticalStep(st, child) ==
    LET s1 == IF /\ st.vertical_chars # <<>>
                 /\ Abs(child.x0 - Last(st.vertical_chars).x0) > VERTICAL_X_THRESHOLD
              THEN flush_vertical_chars(st)
              ELSE st
    IN  [s1 EXCEPT !.vertical_chars = Append(@, child)]

\* the loop body for an LTLine: [x0, y0, x1, y1, linewidth]
LineStep(st0, l) ==
    LET st == flush_vertical_chars(st0)
        cls == LayoutClass(l.x0, l.y0)
    IN  IF st.vstk # <<>> /\ cls = st.xt_cls
        THEN [st EXCEPT !.vlstk = Append(@, l)]
        ELSE [st EXCEPT !.lstk = Append(@, l)]

\* the end of the page that records no lines for the last formula
EndStepNoLines(st0) ==
    LET st == flush_vertical_chars(st0)
    IN  IF st.vstk # <<>>
        THEN [st EXCEPT !.sstk = AddToLast(@, Placeholder(Len(st.var))),
                        !.var = Append(@, st.vstk),
                        !.varf = Append(@, st.vfix),
                        !.varp = Append(@, st.vpar)]
        ELSE st

\* after the loop: the buffer and the open formula are flushed
EndStep(st0) ==
    LET st == flush_vertical_chars(st0)
    IN  IF st.vstk # <<>>
        THEN [st EXCEPT !.sstk = AddToLast(@, Placeholder(Len(st.var))),
                        !.var = Append(@, st.vstk),
                        !.varl = Append(@, st.vlstk),
                        !.varf = Append(@, st.vfix),
                        !.varp = Append(@, st.vpar)]
        ELSE st

\* "l = max([vch.x1 for vch in v]) - v[0].x0"
FormulaWidth(v) == SetMax({v[k].x1 : k \in 1..Len(v)}) - v[1].x0

\* The children of the page used by the model.
HG(text, x0, y0, size, font) ==
    [text |-> text, x0 |-> x0, x1 |-> x0 + size \div 2, y0 |-> y0, y1 |-> y0 + size,
     size |-> size, fontname |-> font, matrix |-> <<1, 0, 0, 1>>]
VG(text, x0, y0, dir) ==
    [text |-> text, x0 |-> x0, x1 |-> x0 + 10, y0 |-> y0, y1 |-> y0 + 5,
     size |-> 10, fontname |-> "Times", matrix |-> <<0, dir, -dir, 0>>]
LN(x0, y0, x1, y1, lw) ==
    [x0 |-> x0, y0 |-> y0, x1 |-> x1, y1 |-> y1, linewidth |-> lw]

HorizontalGlyphs ==
    { HG("a", 0, 20, 10, "Times"), HG("b", 5, 20, 10, "Times"),
      HG("a", 12, 20, 10, "Times"), HG("b", 30, 20, 10, "Times"),
      HG("b", 0, 8, 10, "Times"), HG(" ", 10, 20, 10, "Times"),
      HG("b", 10, 24, 7, "Times"), HG("a", 5, 20, 12, "Times"),
      HG("a", 5, 20, 10, "CMMI10"), HG("b", 12, 20, 10, "ABCDEF+CMSY10"),
      HG("alpha", 12, 20, 10, "Times"), HG("hat", 12, 22, 10, "CMMI10"),
      HG("(", 5, 20, 10, "Times"), HG(")", 12, 20, 10, "Times"),
      HG("bullet", 0, 20, 10, "Times"),
      HG("a", 60, 20, 10, "Times"), HG("a", 5, 45, 10, "Times"),
      HG("a", -3, 70, 10, "Times") }

VerticalGlyphs ==
    { VG("a", 40, 30, -1), VG("b", 40, 20, -1), VG("a", 40, 10, 1),
      VG(" ", 44, 20, -1) }

Glyphs == HorizontalGlyphs \cup VerticalGlyphs

Lines == { LN(5, 18, 15, 18, 1), LN(5, 18, 15, 18, 6), LN(5, 45, 15, 47, 1) }

MaxChildren == 4

(***************************************************************************)
(* Construction: the backend named by the service string.                  *)
(***************************************************************************)
\* the names of the registered backends, in the order of the constructor's
\* list (a part of it)
Translators == <<"google", "ollama", "openai", "noop">>

\* the positions of ":" in a string given as a sequence of pieces
Colons(s) == {k \in 1..Len(s) : s[k] = ":"}

\* param = service.split(":", 1): service_name, and service_model or None
service_nameUpToLastColon(s) ==
    IF Colons(s) = {} THEN s ELSE SubSeq(s, 1, SetMax(Colons(s)) - 1)
service_name(s) ==
    IF Colons(s) = {} THEN s ELSE SubSeq(s, 1, SetMin(Colons(s)) - 1)
service_model(s) ==
    IF Colons(s) = {} THEN [some |-> FALSE, val |-> <<>>]
    ELSE [some |-> TRUE, val |-> SubSeq(s, SetMin(Colons(s)) + 1, Len(s))]

\* self.translator = None
NoTranslator == [name |-> "None", model |-> [some |-> FALSE, val |-> <<>>]]

\* the loop over the backends: the last one whose name is service_name
Matching(s) == {k \in 1..Len(Translators) : service_name(s) = <<Translators[k]>>}
SelectTranslator(s) ==
    IF Matching(s) = {} THEN NoTranslator
    ELSE [name |-> Translators[SetMax(Matching(s))], model |-> service_model(s)]

\* an engine constructed for the service "google"
Constructed ==
    /\ service = <<"google">>
    /\ translator = SelectTranslator(<<"google">>)

\* a translator that has not been called
NoCall == [text |-> "", ignore_cache |-> FALSE, params |-> <<>>]

NoParams == [k \in {"test", "test2"} |-> "none"]

CacheIdle ==
    /\ cache = {}
    /\ auto_n = 0
    /\ ignore_cache = FALSE
    /\ params = NoParams
    /\ call = NoCall
    /\ result = <<>>
    /\ ncall = 0

\* no Markdown export
\* no .md file yet
NoFile == [exists |-> FALSE, text |-> <<>>]

MarkdownIdle ==
    /\ markdown_text = <<>>
    /\ promoted = 0
    /\ markdown_footnotes = "append"
    /\ collected = <<>>
    /\ md_file = NoFile

\* no merge
MergeIdle ==
    /\ ref_lines = <<>>
    /\ trans_lines = <<>>
    /\ ref_idx = 0
    /\ trans_idx = 0
    /\ merged_lines = <<>>
    /\ merged_from = <<>>

SideIdle == CacheIdle /\ MarkdownIdle /\ MergeIdle

\* the dispatcher and the re-layout have not run
PoolIdle ==
    /\ thread = 1
    /\ fs = <<>>
    /\ work_queue = <<>>
    /\ threads = <<>>
    /\ idle_semaphore = 0
    /\ dead = {}
    /\ calls = <<>>
    /\ failed = <<>>
    /\ sent = <<>>
    /\ ret = <<>>
    /\ started = <<>>
    /\ finished = <<>>

DispatchIdle ==
    /\ PoolIdle
    /\ news = <<>>

LayoutIdle ==
    /\ id = 0
    /\ ptr = 0
    /\ cstk = <<>>
    /\ fcur = "None"
    /\ fcur_ = "None"
    /\ lidx = 0
    /\ x = 0
    /\ tx = 0
    /\ ops_vals = <<>>
    /\ positions_queue = <<>>
    /\ fallback_x = 0
    /\ fallback_y = 0
    /\ ops_list = <<>>

\* the local variables of receive_layout before the loop
ScanStart ==
    /\ nchild = 0
    /\ sstk = <<>>
    /\ pstk = <<>>
    /\ vbkt = 0
    /\ vstk = <<>>
    /\ vlstk = <<>>
    /\ vfix = 0
    /\ var = <<>>
    /\ varl = <<>>
    /\ varf = <<>>
    /\ vlen = <<>>
    /\ lstk = <<>>
    /\ xt = NoGlyph
    /\ xt_cls = -1
    /\ vertical_chars = <<>>
    /\ vpar = 0
    /\ varp = <<>>

InitScan ==
    /\ pc = "scan"
    /\ ScanStart
    /\ DispatchIdle
    /\ LayoutIdle
    /\ Constructed
    /\ SideIdle
    /\ default_line_height = 22

dispOnly == <<sideVars, thread, fs, work_queue, threads, idle_semaphore, news, dead, calls,
              failed, sent, ret, started, finished>>

\* the scan state is written back to the variables
Store(st) ==
    /\ sstk' = st.sstk
    /\ pstk' = st.pstk
    /\ vbkt' = st.vbkt
    /\ vstk' = st.vstk
    /\ vlstk' = st.vlstk
    /\ vfix' = st.vfix
    /\ var' = st.var
    /\ varl' = st.varl
    /\ varf' = st.varf
    /\ lstk' = st.lstk
    /\ xt' = st.xt
    /\ xt_cls' = st.xt_cls
    /\ vertical_chars' = st.vertical_chars
    /\ vpar' = st.vpar
    /\ varp' = st.varp

\* "for child in ltpage": an LTChar
ScanChar ==
    /\ pc = "scan"
    /\ nchild < MaxChildren
    /\ \E child \in Glyphs :
          Store(IF is_vertical_glyph(child)
                THEN VerticalStep(ScanState, child)
                ELSE CharStep(ScanState, child))
    /\ nchild' = nchild + 1
    /\ UNCHANGED <<pc, vlen, dispOnly, layVars>>

\* an LTLine
ScanLine ==
    /\ pc = "scan"
    /\ nchild < MaxChildren
    /\ \E l \in Lines : Store(LineStep(ScanState, l))
    /\ nchild' = nchild + 1
    /\ UNCHANGED <<pc, vlen, dispOnly, layVars>>

\* an LTFigure, or any other child
ScanFigure ==
    /\ pc = "scan"
    /\ nchild < MaxChildren
    /\ Store(flush_vertical_chars(ScanState))
    /\ nchild' = nchild + 1
    /\ UNCHANGED <<pc, vlen, dispOnly, layVars>>

\* the end of the loop: the last flushes and the widths of the groups
EndOfPage ==
    /\ pc = "scan"
    /\ LET st == EndStep(ScanState)
       IN  /\ Store(st)
           /\ vlen' = [k \in 1..Len(st.var) |-> FormulaWidth(st.var[k])]
    /\ pc' = "scanned"
    /\ UNCHANGED <<nchild, dispOnly, layVars>>

NextScan == ScanChar \/ ScanLine \/ ScanFigure \/ EndOfPage

SpecScan == InitScan /\ [][NextScan]_vars

(***************************************************************************)
(* Claims about the scan.                                                  *)
(***************************************************************************)
\* the value of a string of decimal digits
RECURSIVE DecValue(_)
DecValue(d) ==
    IF d = <<>> THEN 0
    ELSE 10 * DecValue(SubSeq(d, 1, Len(d) - 1))
           + (CHOOSE n \in 0..9 : DigitOf(n) = Last(d))

\* the first position from k on that holds no digit
RECURSIVE DigitsEnd(_, _)
DigitsEnd(s, k) == IF k <= Len(s) /\ IsDigit(s[k]) THEN DigitsEnd(s, k + 1) ELSE k

\* the numbers N of the markers {vN} of a template, from left to right
RECURSIVE PlaceholdersIn(_)
PlaceholdersIn(s) ==
    IF Len(s) < 4 THEN <<>>
    ELSE IF s[1] = "{" /\ s[2] = "v" /\ IsDigit(s[3])
         THEN LET e == DigitsEnd(s, 3)
              IN  IF e <= Len(s) /\ s[e] = "}"
                  THEN <<DecValue(SubSeq(s, 3, e - 1))>>
                         \o PlaceholdersIn(SubSeq(s, e + 1, Len(s)))
                  ELSE PlaceholdersIn(Tail(s))
         ELSE PlaceholdersIn(Tail(s))

RECURSIVE AllPlaceholders(_)
AllPlaceholders(stk) ==
    IF stk = <<>> THEN <<>>
    ELSE AllPlaceholders(SubSeq(stk, 1, Len(stk) - 1)) \o PlaceholdersIn(Last(stk))

Count(seq, n) == Cardinality({k \in 1..Len(seq) : seq[k] = n})

\* groups are numbered in creation order, none is empty, and the markers of
\* all templates are exactly the group numbers, each once
GroupsNumbered ==
    /\ Len(varl) = Len(var) /\ Len(varf) = Len(var) /\ Len(vlen) = Len(var)
    /\ \A n \in 1..Len(var) : Len(var[n]) >= 1
    /\ AllPlaceholders(sstk) = [k \in 1..Len(var) |-> k - 1]

\* the marker of each group stands in the template of the paragraph in
\* which the group was captured
MarkerInOwnParagraph ==
    \A n \in 1..Len(var) : Count(PlaceholdersIn(sstk[varp[n]]), n - 1) = 1

\* C7: after the scan the groups are numbered 0..n-1 in creation order, each
\* has a glyph, each N occurs as {vN} exactly once over all templates, in
\* the template of the paragraph the group was captured in, and no template
\* holds a marker without a group.
C7_PlaceholderConservation ==
    pc = "scanned" => GroupsNumbered /\ MarkerInOwnParagraph

(***************************************************************************)
(* B. Translation of the paragraphs: worker, retry and the thread pool.    *)
(***************************************************************************)
\* worker: "if not s.strip() or re.match(...): return s"
WorkerBypass(s) == Strip(s) = <<>> \/ MatchWholePlaceholder(s)

\* The translate capability answers with some string computed from the text
\* it was given; the answer carries the text so that a result shows its input.
BackendAnswers == {"x"}
Translated(a, s) == <<a>> \o s

\* tenacity's @retry(wait=wait_fixed(1)): no stop condition, so an attempt
\* that raised is always followed by a wait and another attempt.
RetryStopAfterFirst == FALSE
RetryAfterFailure == TRUE

\* ThreadPoolExecutor._adjust_thread_count: a thread is added only while
\* fewer than max_workers exist.
CanSpawnUnbounded == TRUE
CanSpawn == Len(threads) < thread

\* SimpleQueue.get: the oldest work item.
QueuePick == 1

\* result_iterator of executor.map: futures are awaited in submission order.
NextResultAsCompleted ==
    IF \E k \in 1..Len(fs) : fs[k].st = "done" /\ k > Len(news)
    THEN CHOOSE k \in 1..Len(fs) :
            /\ fs[k].st = "done" /\ k > Len(news)
            /\ \A j \in 1..Len(fs) : (fs[j].st = "done" /\ j > Len(news)) => j <= k
    ELSE Len(news) + 1
NextResult == Len(news) + 1

Bump(n) == Min(n + 1, MaxFail + 2)

\* The templates handed to the dispatcher: whitespace, single placeholders,
\* near misses of both, and text with placeholders.
TemplateSet ==
    { <<>>, <<" ">>, <<" ", " ">>,
      <<"{", "v", "0", "}">>, <<"{", "v", "1", "2", "}">>,
      <<"{", "v", "}">>, <<"{", "v", "0", "}", " ">>, <<" ", "{", "v", "0", "}">>,
      <<"{", "v", "0", "}", "{", "v", "1", "}">>,
      <<"a">>, <<"a", " ", "{", "v", "0", "}">>, <<"{", "v", "a", "}">> }

\* Lists of at most one template over the whole set, longer ones over its core.
CoreTemplates ==
    { <<"{", "v", "0", "}">>, <<"a", " ", "{", "v", "1", "}">> }

TemplateLists ==
    UNION ({ [1..n -> TemplateSet] : n \in 0..Min(1, MaxTemplates) }
           \cup { [1..n -> CoreTemplates] : n \in 2..MaxTemplates })

InitDispatch ==
    /\ pc = "map"
    /\ thread \in 1..MaxThread
    /\ sstk \in TemplateLists
    /\ fs = <<>>
    /\ work_queue = <<>>
    /\ threads = <<>>
    /\ idle_semaphore = 0
    /\ news = <<>>
    /\ dead \in {{}} \cup {{i} : i \in 1..Len(sstk)}
    /\ calls = [i \in 1..Len(sstk) |-> 0]
    /\ failed = [i \in 1..Len(sstk) |-> 0]
    /\ sent = [i \in 1..Len(sstk) |-> {}]
    /\ ret = [i \in 1..Len(sstk) |-> <<>>]
    /\ started = <<>>
    /\ finished = <<>>
    /\ nchild = 0
    /\ pstk = <<>>
    /\ vbkt = 0
    /\ vstk = <<>>
    /\ vlstk = <<>>
    /\ vfix = 0
    /\ var = <<>>
    /\ varl = <<>>
    /\ varf = <<>>
    /\ vlen = <<>>
    /\ lstk = <<>>
    /\ xt = NoGlyph
    /\ xt_cls = -1
    /\ vertical_chars = <<>>
    /\ vpar = 0
    /\ varp = <<>>
    /\ LayoutIdle
    /\ Constructed
    /\ SideIdle
    /\ default_line_height = 22

\* executor.submit for the next template: queue the work item, then
\* _adjust_thread_count.
Submit ==
    /\ pc = "map"
    /\ Len(fs) < Len(sstk)
    /\ fs' = Append(fs, [st |-> "pending", val |-> <<>>])
    /\ work_queue' = Append(work_queue, Len(fs) + 1)
    /\ IF idle_semaphore > 0
       THEN idle_semaphore' = idle_semaphore - 1 /\ UNCHANGED threads
       ELSE /\ UNCHANGED idle_semaphore
            /\ threads' = IF CanSpawn
                          THEN Append(threads, [st |-> "get", item |-> 0])
                          ELSE threads
    /\ UNCHANGED <<pc, sideVars, thread, sstk, news, dead, calls, failed, sent, ret, started,
                   finished, pageVars>>

\* every template is submitted before the first result is awaited
MapDone ==
    /\ pc = "map"
    /\ Len(fs) = Len(sstk)
    /\ pc' = "result"
    /\ UNCHANGED <<sideVars, thread, sstk, fs, work_queue, threads, idle_semaphore, news,
                   dead, calls, failed, sent, ret, started, finished, pageVars>>

\* list(...) takes the next future's result, or its exception
Result ==
    /\ pc = "result"
    /\ Len(news) < Len(sstk)
    /\ LET k == NextResult
       IN  /\ k \in 1..Len(fs)
           /\ fs[k].st \in {"done", "exc"}
           /\ IF fs[k].st = "done"
              THEN news' = Append(news, fs[k].val) /\ pc' = pc
              ELSE news' = news /\ pc' = "raised"
    /\ UNCHANGED <<sideVars, thread, sstk, fs, work_queue, threads, idle_semaphore,
                   dead, calls, failed, sent, ret, started, finished, pageVars>>

Return ==
    /\ pc = "result"
    /\ Len(news) = Len(sstk)
    /\ pc' = "returned"
    /\ UNCHANGED <<sideVars, thread, sstk, fs, work_queue, threads, idle_semaphore, news,
                   dead, calls, failed, sent, ret, started, finished, pageVars>>

\* _worker: work_queue.get, then work_item.run
Get(t) ==
    /\ threads[t].st = "get"
    /\ work_queue # <<>>
    /\ LET q == QueuePick
           i == work_queue[q]
       IN  /\ work_queue' = SubSeq(work_queue, 1, q - 1)
                              \o SubSeq(work_queue, q + 1, Len(work_queue))
           /\ threads' = [threads EXCEPT ![t] = [st |-> "run", item |-> i]]
           /\ fs' = [fs EXCEPT ![i].st = "running"]
           /\ started' = Append(started, i)
    /\ UNCHANGED <<pc, sideVars, thread, sstk, idle_semaphore, news, dead, calls, failed,
                   sent, ret, finished, pageVars>>

\* set_result, then the thread releases the idle semaphore and waits again
Finished(t, st, val) ==
    /\ fs' = [fs EXCEPT ![threads[t].item] = [st |-> st, val |-> val]]
    /\ threads' = [threads EXCEPT ![t] = [st |-> "get", item |-> 0]]
    /\ idle_semaphore' = idle_semaphore + 1
    /\ finished' = Append(finished, threads[t].item)

\* one attempt of worker(s) up to the call of translate
Attempt(t) ==
    /\ threads[t].st = "run"
    /\ LET i == threads[t].item
           s == sstk[i]
       IN  IF WorkerBypass(s)
           THEN /\ Finished(t, "done", s)
                /\ UNCHANGED <<calls, sent>>
           ELSE /\ threads' = [threads EXCEPT ![t].st = "call"]
                /\ calls' = [calls EXCEPT ![i] = Bump(@)]
                /\ sent' = [sent EXCEPT ![i] = @ \cup {s}]
                /\ UNCHANGED <<fs, idle_semaphore, finished>>
    /\ UNCHANGED <<pc, sideVars, thread, sstk, work_queue, news, dead, failed, ret, started,
                   pageVars>>

\* translate returns: worker returns the new string
BackendReturn(t) ==
    /\ threads[t].st = "call"
    /\ threads[t].item \notin dead
    /\ \E a \in BackendAnswers :
          LET i == threads[t].item
              v == Translated(a, sstk[i])
          IN  /\ ret' = [ret EXCEPT ![i] = v]
              /\ Finished(t, "done", v)
    /\ UNCHANGED <<pc, sideVars, thread, sstk, work_queue, news, dead, calls, failed,
                   sent, started, pageVars>>

\* the retry wrapper's treatment of an attempt that raised
AfterRaiseNoRetry(t) ==
    Finished(t, "done", sstk[threads[t].item])
AfterRaise(t) ==
    IF RetryAfterFailure
    THEN /\ threads' = [threads EXCEPT ![t].st = "wait"]
         /\ UNCHANGED <<fs, idle_semaphore, finished>>
    ELSE Finished(t, "exc", <<>>)

\* translate raises: worker logs and re-raises, the retry wrapper decides
BackendRaise(t) ==
    /\ threads[t].st = "call"
    /\ threads[t].item \in dead \/ failed[threads[t].item] < MaxFail
    /\ failed' = [failed EXCEPT ![threads[t].item] = Bump(@)]
    /\ AfterRaise(t)
    /\ UNCHANGED <<pc, sideVars, thread, sstk, work_queue, news, dead, calls, sent, ret,
                   started, pageVars>>

\* wait_fixed(1) is over: the next attempt
Wake(t) ==
    /\ threads[t].st = "wait"
    /\ threads' = [threads EXCEPT ![t].st = "run"]
    /\ UNCHANGED <<pc, sideVars, thread, sstk, fs, work_queue, idle_semaphore, news, dead,
                   calls, failed, sent, ret, started, finished, pageVars>>

MainStep == Submit \/ MapDone \/ Result \/ Return

WorkerStep(t) ==
    /\ t \in 1..Len(threads)
    /\ (Get(t) \/ Attempt(t) \/ BackendReturn(t) \/ BackendRaise(t) \/ Wake(t))

NextDispatch ==
    \/ Submit
    \/ MapDone
    \/ Result
    \/ Return
    \/ \E t \in 1..Len(threads) : Get(t)
    \/ \E t \in 1..Len(threads) : Attempt(t)
    \/ \E t \in 1..Len(threads) : BackendReturn(t)
    \/ \E t \in 1..Len(threads) : BackendRaise(t)
    \/ \E t \in 1..Len(threads) : Wake(t)

SpecDispatch == InitDispatch /\ [][NextDispatch]_vars

\* The operating system schedules every thread that can run.
SpecDispatchFair ==
    /\ InitDispatch
    /\ [][NextDispatch]_vars
    /\ WF_vars(MainStep)
    /\ \A t \in 1..(MaxThread + 1) : WF_vars(WorkerStep(t))

(***************************************************************************)
(* The engine from its construction to the translated list.                *)
(***************************************************************************)
\* service strings, as pieces and colons
Services ==
    { <<>>, <<"google">>, <<"noop">>, <<"Google">>, <<"nosuch">>,
      <<"google", ":">>, <<":", "google">>,
      <<"ollama", ":", "gemma2", ":", "9b">>,
      <<"nosuch", ":", "google">> }

\* the templates of the pages given to the engine
EngineTemplates ==
    { <<>>, << <<"a">> >>, << <<"{", "v", "0", "}">>, <<"a">> >> }

InitEngine ==
    /\ pc = "init"
    /\ service \in Services
    /\ translator = NoTranslator
    /\ SideIdle
    /\ thread \in 0..MaxThread
    /\ sstk \in EngineTemplates
    /\ fs = <<>>
    /\ work_queue = <<>>
    /\ threads = <<>>
    /\ idle_semaphore = 0
    /\ news = <<>>
    /\ dead = {}
    /\ calls = [i \in 1..Len(sstk) |-> 0]
    /\ failed = [i \in 1..Len(sstk) |-> 0]
    /\ sent = [i \in 1..Len(sstk) |-> {}]
    /\ ret = [i \in 1..Len(sstk) |-> <<>>]
    /\ started = <<>>
    /\ finished = <<>>
    /\ nchild = 0
    /\ pstk = <<>>
    /\ vbkt = 0
    /\ vstk = <<>>
    /\ vlstk = <<>>
    /\ vfix = 0
    /\ var = <<>>
    /\ varl = <<>>
    /\ varf = <<>>
    /\ vlen = <<>>
    /\ lstk = <<>>
    /\ xt = NoGlyph
    /\ xt_cls = -1
    /\ vertical_chars = <<>>
    /\ vpar = 0
    /\ varp = <<>>
    /\ LayoutIdle
    /\ default_line_height = 22

\* TranslateConverter.__init__: the backend is selected, or ValueError
Construct ==
    /\ pc = "init"
    /\ translator' = SelectTranslator(service)
    /\ pc' = IF Matching(service) = {} THEN "unsupported" ELSE "constructed"
    /\ UNCHANGED <<service, cacheVars, mdVars, mergeVars, thread, sstk, fs, work_queue, threads,
                   idle_semaphore, news, dead, calls, failed, sent, ret, started,
                   finished, pageVars>>

\* ThreadPoolExecutor(max_workers=self.thread) of receive_layout:
\* "if max_workers <= 0: raise ValueError"
NewExecutor ==
    /\ pc = "constructed"
    /\ pc' = IF thread <= 0 THEN "raised" ELSE "map"
    /\ UNCHANGED <<sideVars, thread, sstk, fs, work_queue, threads, idle_semaphore,
                   news, dead, calls, failed, sent, ret, started, finished, pageVars>>

NextEngine == Construct \/ NewExecutor \/ NextDispatch

SpecEngine == InitEngine /\ [][NextEngine]_vars

\* C14 as stated: with thread = 0 the dispatcher runs and receive_layout does
\* not fail because of the worker count.
C14_WorkerCountZero == thread = 0 => pc # "raised"

\* C15 as stated: once a converter has been constructed, receive_layout
\* reaches no error state, for any worker count the configuration accepts.
C15_RaisesOnlyAtConstruction == translator # NoTranslator => pc \notin {"raised"}

\* the registered names
Registered == {Translators[k] : k \in 1..Len(Translators)}

\* the service string is the name n alone, or n, a colon and a remainder
Names(s, n) == s = <<n>> \/ (Len(s) >= 2 /\ s[1] = n /\ s[2] = ":")

\* C16: construction selects the backend whose registered name is the part
\* of the service string before its first colon, with the remainder after
\* that colon as the model, or no model if there is no colon; if no
\* registered name is that part, construction fails, no backend is set and
\* nothing of the engine runs.
C16_BackendSelection ==
    /\ pc \notin {"init", "unsupported"} =>
          /\ translator.name \in Registered
          /\ Names(service, translator.name)
          /\ translator.model.some = (Len(service) >= 2)
          /\ translator.model.some =>
                translator.model.val = SubSeq(service, 3, Len(service))
    /\ pc = "unsupported" =>
          /\ \A n \in Registered : ~Names(service, n)
          /\ translator = NoTranslator
          /\ fs = <<>> /\ news = <<>>
    /\ (pc # "init" /\ \A n \in Registered : ~Names(service, n)) => pc = "unsupported"

\* the backend "ollama" has been selected with the model "gemma2:9b"
C16_Witness ==
    /\ pc = "returned"
    /\ translator.name = "ollama"
    /\ translator.model.val = <<"gemma2", ":", "9b">>

(***************************************************************************)
(* C. Re-layout of the translated strings.                                 *)
(* Emitted y coordinates are in twentieths of a unit, the step of the      *)
(* line height; everything else is in units.                               *)
(***************************************************************************)
\* re.match(r"\{\s*v([\d\s]+)\}", s, re.IGNORECASE): [ok, len, group]
RECURSIVE SpacesEnd(_, _)
SpacesEnd(s, k) == IF k <= Len(s) /\ IsSpace(s[k]) THEN SpacesEnd(s, k + 1) ELSE k
RECURSIVE DigitSpaceEnd(_, _)
DigitSpaceEnd(s, k) ==
    IF k <= Len(s) /\ (IsDigit(s[k]) \/ IsSpace(s[k])) THEN DigitSpaceEnd(s, k + 1) ELSE k

NoMatch == [ok |-> FALSE, len |-> 0, group |-> <<>>]
vy_regex(s) ==
    IF s = <<>> \/ s[1] # "{" THEN NoMatch
    ELSE LET v == SpacesEnd(s, 2)
         IN  IF v > Len(s) \/ s[v] \notin {"v", "V"} THEN NoMatch
             ELSE LET e == DigitSpaceEnd(s, v + 1)
                  IN  IF e = v + 1 \/ e > Len(s) \/ s[e] # "}" THEN NoMatch
                      ELSE [ok |-> TRUE, len |-> e, group |-> SubSeq(s, v + 1, e - 1)]

\* group(1).replace(" ", "")
RECURSIVE RemoveBlanks(_)
RemoveBlanks(s) ==
    IF s = <<>> THEN <<>>
    ELSE IF Head(s) = " " THEN RemoveBlanks(Tail(s))
         ELSE <<Head(s)>> \o RemoveBlanks(Tail(s))

\* int(text): [ok, val]; surrounding whitespace is accepted, inner is not
IntOf(s) ==
    LET d == Strip(s)
    IN  IF d # <<>> /\ \A k \in 1..Len(d) : IsDigit(d[k])
        THEN [ok |-> TRUE, val |-> DecValue(d)]
        ELSE [ok |-> FALSE, val |-> 0]

\* "vid = int(...); adv = vlen[vid]" inside try: the group number, or none
GroupIndex(m) ==
    LET n == IntOf(RemoveBlanks(m.group))
    IN  IF n.ok /\ n.val < Len(vlen) THEN [ok |-> TRUE, vid |-> n.val + 1]
        ELSE [ok |-> FALSE, vid |-> 0]

\* self.fontmap["tiro"].to_unichr(ord(ch)) == ch: the Latin font decodes it
TiroDecodes(ch) == ch \notin {"alpha", "bullet", "hat", "plus", "zh"}

\* the font selected for a character
FontFor(ch) == IF TiroDecodes(ch) THEN "tiro" ELSE "noto"

\* the advance of a character: noto.char_lengths(ch, size)[0], or
\* fontmap[font].char_width(ord(ch)) * size
Advance(font, ch, size) ==
    IF font = "noto" THEN size
    ELSE IF ch = " " THEN size \div 4
         ELSE IF ch = "b" THEN (6 * size) \div 10
              ELSE size \div 2

\* x + adv > x1 + 0.1 * size
Overrun(cx, adv, p) == 10 * (cx + adv) > 10 * p.x1 + p.size

\* a queued text run
TextOp(font, size, ox, dy, rtxt, line) ==
    [type |-> "TEXT", font |-> font, size |-> size, x |-> ox, dy |-> dy,
     rtxt |-> rtxt, lidx |-> line]

\* the buffered run is thrown away
FlushRunLost(vals, buf, font, size, runx, line) == vals

\* the buffered run is queued
FlushRun(vals, buf, font, size, runx, line) ==
    IF buf # <<>> THEN Append(vals, TextOp(font, size, runx, 0, buf, line)) ELSE vals

\* the width of the last glyph of a group if it is a modifier, else 0
Modifier(v) ==
    IF Category(Last(v).text) \in {"Lm", "Mn", "Sk"} THEN Last(v).x1 - Last(v).x0 ELSE 0

\* the operators of formula group vid at cursor cx on line "line"
FormulaOps(vid, cx, fix, line) ==
    [k \in 1..Len(var[vid]) |->
        TextOp(var[vid][k].fontname, var[vid][k].size,
               cx + var[vid][k].x0 - var[vid][1].x0,
               fix + var[vid][k].y0 - var[vid][1].y0,
               <<var[vid][k].text>>, line)]

KeepLineUpTo5(l) == l.linewidth <= 5
KeepLine(l) == l.linewidth < 5

RECURSIVE KeptLines(_)
KeptLines(ls) ==
    IF ls = <<>> THEN <<>>
    ELSE IF KeepLine(Head(ls)) THEN <<Head(ls)>> \o KeptLines(Tail(ls))
         ELSE KeptLines(Tail(ls))

FormulaLineOps(vid, cx, fix, line) ==
    LET ls == KeptLines(varl[vid])
    IN  [k \in 1..Len(ls) |->
            [type |-> "LINE", x |-> ls[k].x0 + cx - var[vid][1].x0,
             dy |-> ls[k].y0 + fix - var[vid][1].y0, linewidth |-> ls[k].linewidth,
             xlen |-> ls[k].x1 - ls[k].x0, ylen |-> ls[k].y1 - ls[k].y0,
             lidx |-> line]]

\* "line_height >= 1" on the floating point value reached by subtracting
\* 0.05 from the default: 1.4 and 1.2 arrive just below 1.0, 1.1 and 1.0 at it.
\* The products of the other test are taken as exact.
AtLeastOne(lh) == lh > 20 \/ (lh = 20 /\ default_line_height \in {22, 20})

\* the loop without its second test
RECURSIVE ShrinkNoFloor(_, _, _, _)
ShrinkNoFloor(lh, line, size, height) ==
    IF (line + 1) * size * lh > 20 * height
    THEN ShrinkNoFloor(lh - 1, line, size, height)
    ELSE lh

\* "while (lidx + 1) * size * line_height > height and line_height >= 1"
RECURSIVE Shrink(_, _, _, _)
Shrink(lh, line, size, height) ==
    IF (line + 1) * size * lh > 20 * height /\ AtLeastOne(lh)
    THEN Shrink(lh - 1, line, size, height)
    ELSE lh

\* gen_op_txt / gen_op_line for a queued operator of paragraph par
Emit(v, par, ybase, size, lh) ==
    IF v.type = "TEXT"
    THEN [op |-> "Tm", par |-> par, font |-> v.font, size |-> v.size, x |-> v.x,
          y |-> 20 * (v.dy + ybase) - v.lidx * size * lh, rtxt |-> v.rtxt]
    ELSE [op |-> "line", par |-> par, x |-> v.x,
          y |-> 20 * (v.dy + ybase) - v.lidx * size * lh,
          xlen |-> v.xlen, ylen |-> v.ylen, linewidth |-> v.linewidth]

\* the languages of the line height table, in twentieths
LineHeights == {28, 22, 24, 20, 16}

\* "fallback_y + direction * spacing", in half units
SynthesizedAgainst(fy, direction, spacing) == fy - direction * spacing
Synthesized(fy, direction, spacing) == fy + direction * spacing

frameH == <<default_line_height, positions_queue, fallback_x, fallback_y>>

\* "for id, new in enumerate(news)": the locals of the next paragraph
LayoutBegin ==
    /\ pc = "layout"
    /\ id < Len(news)
    /\ id' = id + 1
    /\ LET p == pstk[id + 1]
       IN  /\ x' = p.x
           /\ tx' = p.x
           /\ IF p.vertical
              THEN /\ positions_queue' = p.vertical_positions
                   /\ fallback_x' = IF p.vertical_positions # <<>>
                                    THEN p.vertical_positions[1][1] ELSE p.x
                   /\ fallback_y' = IF p.vertical_positions # <<>>
                                    THEN 2 * p.vertical_positions[1][2] ELSE 2 * p.y
                   /\ pc' = "vertical"
              ELSE /\ UNCHANGED <<positions_queue, fallback_x, fallback_y>>
                   /\ pc' = "horizontal"
    /\ ptr' = 1
    /\ cstk' = <<>>
    /\ fcur' = "None"
    /\ fcur_' = "None"
    /\ lidx' = 0
    /\ ops_vals' = <<>>
    /\ UNCHANGED <<default_line_height, ops_list, sstk, scanVars, dispOnly>>

\* one turn of the while loop of a vertical paragraph
VerticalChar ==
    /\ pc = "vertical"
    /\ ptr <= Len(news[id])
    /\ LET new == news[id]
           p == pstk[id]
           m == vy_regex(SubSeq(new, ptr, Len(new)))
           ch == new[ptr]
           direction == IF p.vertical_direction # 0 THEN p.vertical_direction ELSE -1
           spacing == IF p.vertical_spacing # 0 THEN p.vertical_spacing ELSE 2 * p.size
       IN  IF ch = "\n"
           THEN /\ ptr' = ptr + 1
                /\ UNCHANGED <<positions_queue, fallback_x, fallback_y, ops_list>>
           ELSE IF m.ok
                THEN /\ ptr' = ptr + m.len
                     /\ UNCHANGED <<positions_queue, fallback_x, fallback_y, ops_list>>
                ELSE /\ ptr' = ptr + 1
                     /\ IF positions_queue # <<>>
                        THEN /\ fallback_x' = Head(positions_queue)[1]
                             /\ fallback_y' = 2 * Head(positions_queue)[2]
                             /\ positions_queue' = Tail(positions_queue)
                        ELSE /\ fallback_x' = fallback_x
                             /\ fallback_y' = Synthesized(fallback_y, direction, spacing)
                             /\ positions_queue' = positions_queue
                     /\ ops_list' = Append(ops_list,
                            [op |-> "vertical", par |-> id, font |-> FontFor(ch),
                             size |-> p.size, x |-> fallback_x', y |-> 10 * fallback_y',
                             rtxt |-> <<ch>>, direction |-> direction])
    /\ UNCHANGED <<pc, default_line_height, id, cstk, fcur, fcur_, lidx, x, tx,
                   ops_vals, sstk, scanVars, dispOnly>>

\* the vertical paragraph is finished: "continue"
VerticalEnd ==
    /\ pc = "vertical"
    /\ ptr > Len(news[id])
    /\ pc' = "layout"
    /\ UNCHANGED <<layVars, sstk, scanVars, dispOnly>>

\* the correction applied without the test of fcur
PlaceFormulaAlwaysFix(m, vid) ==
    LET p == pstk[id]
        adv == vlen[vid]
        mod == Modifier(var[vid])
        vals1 == FlushRun(ops_vals, cstk, fcur, p.size, tx, lidx)
        wrap == p.brk /\ Overrun(x, adv, p)
        x1 == IF wrap THEN p.x0 ELSE x
        l1 == IF wrap THEN lidx + 1 ELSE lidx
        fix == varf[vid]
    IN  /\ ptr' = ptr + m.len
        /\ cstk' = <<>>
        /\ lidx' = l1
        /\ ops_vals' = vals1 \o FormulaOps(vid, x1, fix, l1)
                             \o FormulaLineOps(vid, x1, fix, l1)
        /\ fcur' = fcur_
        /\ x' = x1 + (adv - mod)
        /\ UNCHANGED <<fcur_, tx>>

\* a marker of group vid
PlaceFormula(m, vid) ==
    LET p == pstk[id]
        adv == vlen[vid]
        mod == Modifier(var[vid])
        vals1 == FlushRun(ops_vals, cstk, fcur, p.size, tx, lidx)
        wrap == p.brk /\ Overrun(x, adv, p)
        x1 == IF wrap THEN p.x0 ELSE x
        l1 == IF wrap THEN lidx + 1 ELSE lidx
        fix == IF fcur # "None" THEN varf[vid] ELSE 0
    IN  /\ ptr' = ptr + m.len
        /\ cstk' = <<>>
        /\ lidx' = l1
        /\ ops_vals' = vals1 \o FormulaOps(vid, x1, fix, l1)
                             \o FormulaLineOps(vid, x1, fix, l1)
        /\ fcur' = fcur_
        /\ x' = x1 + (adv - mod)
        /\ UNCHANGED <<fcur_, tx>>

\* a plain character, the line broken at every overrun
PlaceCharWrapAlways(ch) ==
    LET p == pstk[id]
        font == FontFor(ch)
        adv == Advance(font, ch, p.size)
        over == Overrun(x, adv, p)
        flush == font # fcur \/ over
        vals1 == IF flush THEN FlushRun(ops_vals, cstk, fcur, p.size, tx, lidx)
                 ELSE ops_vals
        buf1 == IF flush THEN <<>> ELSE cstk
        wrap == over
        x1 == IF wrap THEN p.x0 ELSE x
        l1 == IF wrap THEN lidx + 1 ELSE lidx
        drop == buf1 = <<>> /\ x1 = p.x0 /\ ch = " "
    IN  /\ ptr' = ptr + 1
        /\ fcur_' = font
        /\ ops_vals' = vals1
        /\ lidx' = l1
        /\ tx' = IF buf1 = <<>> THEN x1 ELSE tx
        /\ cstk' = IF drop THEN buf1 ELSE Append(buf1, ch)
        /\ fcur' = font
        /\ x' = x1 + (IF drop THEN 0 ELSE adv)

\* a plain character
PlaceChar(ch) ==
    LET p == pstk[id]
        font == FontFor(ch)
        adv == Advance(font, ch, p.size)
        over == Overrun(x, adv, p)
        flush == font # fcur \/ over
        vals1 == IF flush THEN FlushRun(ops_vals, cstk, fcur, p.size, tx, lidx)
                 ELSE ops_vals
        buf1 == IF flush THEN <<>> ELSE cstk
        wrap == p.brk /\ over
        x1 == IF wrap THEN p.x0 ELSE x
        l1 == IF wrap THEN lidx + 1 ELSE lidx
        drop == buf1 = <<>> /\ x1 = p.x0 /\ ch = " "
    IN  /\ ptr' = ptr + 1
        /\ fcur_' = font
        /\ ops_vals' = vals1
        /\ lidx' = l1
        /\ tx' = IF buf1 = <<>> THEN x1 ELSE tx
        /\ cstk' = IF drop THEN buf1 ELSE Append(buf1, ch)
        /\ fcur' = font
        /\ x' = x1 + (IF drop THEN 0 ELSE adv)

\* a marker that names no group, laid out as the text it is made of
SkipMarkerAsText(m) == PlaceChar("{")

\* a marker that names no group is passed over by "continue"
SkipMarker(m) ==
    /\ ptr' = ptr + m.len
    /\ UNCHANGED <<cstk, fcur, fcur_, lidx, x, tx, ops_vals>>

\* one turn of the while loop of a horizontal paragraph
HorizontalStep ==
    /\ pc = "horizontal"
    /\ ptr <= Len(news[id])
    /\ LET new == news[id]
           m == vy_regex(SubSeq(new, ptr, Len(new)))
           g == GroupIndex(m)
       IN  IF m.ok
           THEN IF g.ok THEN PlaceFormula(m, g.vid) ELSE SkipMarker(m)
           ELSE PlaceChar(new[ptr])
    /\ UNCHANGED <<pc, id, frameH, ops_list, sstk, scanVars, dispOnly>>

\* after the loop: the last run, the line height, the paragraph's operators
HorizontalEnd ==
    /\ pc = "horizontal"
    /\ ptr > Len(news[id])
    /\ LET p == pstk[id]
           vals == FlushRun(ops_vals, cstk, fcur, p.size, tx, lidx)
           lh == Shrink(default_line_height, lidx, p.size, p.y1 - p.y0)
       IN  /\ ops_vals' = vals
           /\ ops_list' = ops_list \o
                 [k \in 1..Len(vals) |-> Emit(vals[k], id, p.y, p.size, lh)]
    /\ pc' = "layout"
    /\ UNCHANGED <<id, ptr, cstk, fcur, fcur_, lidx, x, tx, frameH, sstk, scanVars,
                   dispOnly>>

\* the lines of the page put in front of the paragraphs
PageLinesFirst ==
    /\ pc = "layout"
    /\ id = Len(news)
    /\ LET ls == KeptLines(lstk)
       IN  ops_list' =
             [k \in 1..Len(ls) |->
                [op |-> "line", par |-> 0, x |-> ls[k].x0, y |-> 20 * ls[k].y0,
                 xlen |-> ls[k].x1 - ls[k].x0, ylen |-> ls[k].y1 - ls[k].y0,
                 linewidth |-> ls[k].linewidth]] \o ops_list
    /\ pc' = "done"
    /\ UNCHANGED <<default_line_height, id, ptr, cstk, fcur, fcur_, lidx, x, tx,
                   ops_vals, positions_queue, fallback_x, fallback_y, sstk, scanVars,
                   dispOnly>>

\* the lines of the page follow the paragraphs; the stream is complete
PageLines ==
    /\ pc = "layout"
    /\ id = Len(news)
    /\ LET ls == KeptLines(lstk)
       IN  ops_list' = ops_list \o
             [k \in 1..Len(ls) |->
                [op |-> "line", par |-> 0, x |-> ls[k].x0, y |-> 20 * ls[k].y0,
                 xlen |-> ls[k].x1 - ls[k].x0, ylen |-> ls[k].y1 - ls[k].y0,
                 linewidth |-> ls[k].linewidth]]
    /\ pc' = "done"
    /\ UNCHANGED <<default_line_height, id, ptr, cstk, fcur, fcur_, lidx, x, tx,
                   ops_vals, positions_queue, fallback_x, fallback_y, sstk, scanVars,
                   dispOnly>>

NextLayout ==
    \/ LayoutBegin
    \/ VerticalChar
    \/ VerticalEnd
    \/ HorizontalStep
    \/ HorizontalEnd
    \/ PageLines

\* the translator that returns its input unchanged
PassThrough ==
    /\ pc = "scanned"
    /\ news' = sstk
    /\ pc' = "layout"
    /\ UNCHANGED <<sideVars, thread, fs, work_queue, threads, idle_semaphore, dead, calls,
                   failed, sent, ret, started, finished, sstk, scanVars, layVars>>

\* the scan of a whole page as one value
NewScan ==
    [sstk |-> <<>>, pstk |-> <<>>, vbkt |-> 0, vstk |-> <<>>, vlstk |-> <<>>,
     vfix |-> 0, var |-> <<>>, varl |-> <<>>, varf |-> <<>>, lstk |-> <<>>,
     xt |-> NoGlyph, xt_cls |-> -1, vertical_chars |-> <<>>, vpar |-> 0,
     varp |-> <<>>]

ChildStep(st, child) ==
    IF "linewidth" \in DOMAIN child THEN LineStep(st, child)
    ELSE IF is_vertical_glyph(child) THEN VerticalStep(st, child)
         ELSE CharStep(st, child)

\* the children are taken one after the other, each from the state the
\* previous one left
RECURSIVE ScanOf(_, _)
ScanOf(st, page) ==
    IF page = <<>> THEN EndStep(st)
    ELSE CHOOSE r \in { ScanOf(s, Tail(page)) : s \in {ChildStep(st, Head(page))} } : TRUE

\* the pages whose translations are laid out
Pages ==
    { \* a page with no child
      << >>,
       \* a line of text with a formula in the middle, and a second group
      << HG("a", 0, 20, 10, "Times"), HG("a", 5, 20, 10, "CMMI10"),
         HG("a", 12, 20, 10, "Times"), HG("b", 12, 20, 10, "ABCDEF+CMSY10") >>,
      \* a wrapped paragraph
      << HG("a", 0, 20, 10, "Times"), HG("b", 5, 20, 10, "Times"),
         HG("a", 12, 20, 10, "Times"), HG("b", 0, 8, 10, "Times") >>,
      \* a fraction bar inside a formula, text after it
      << HG("a", 0, 20, 10, "Times"), HG("a", 5, 20, 10, "CMMI10"),
         LN(5, 18, 15, 18, 1), HG("a", 12, 20, 10, "Times") >>,
      \* a formula that stands above the baseline of its paragraph
      << HG("a", 0, 20, 10, "Times"), HG("a", 5, 23, 10, "CMMI10"),
         HG("a", 12, 20, 10, "Times") >>,
      \* a wrapped paragraph with a formula
      << HG("a", 0, 20, 10, "Times"), HG("a", 5, 20, 10, "CMMI10"),
         HG("b", -3, 8, 10, "Times") >>,
      \* a narrow formula glyph under an accent that is wider than it
      << HG("a", 0, 20, 10, "Times"), HG("b", 13, 20, 6, "CMMI10"),
         HG("hat", 12, 22, 10, "CMMI10") >>,
      \* a vertical column of three glyphs
      << VG("a", 40, 30, -1), VG("b", 40, 20, -1), VG("a", 40, 10, -1) >>,
      \* a vertical column of two glyphs and a horizontal paragraph
      << VG("a", 40, 30, -1), VG("b", 40, 20, -1), HG("a", 0, 20, 10, "Times") >>,
      \* a vertical column running upwards
      << VG("a", 40, 10, 1), VG("b", 40, 20, 1) >>,
      \* a vertical column running upwards, its glyphs listed from the top
      << VG("a", 40, 30, 1), VG("b", 40, 20, 1) >>,
      \* a vertical column whose first glyph runs downwards and second upwards
      << VG("a", 40, 30, -1), VG("b", 40, 20, 1) >>,
      \* a vertical column that begins with a whitespace glyph
      << VG(" ", 40, 30, -1), VG("a", 40, 20, -1), VG("b", 40, 10, -1) >>,
      \* a vertical glyph whose matrix[1] is zero
      << [VG("a", 40, 30, 1) EXCEPT !.matrix = <<0, 0, 1, 0>>] >>,
      \* a line of the page, a formula of two glyphs, a second paragraph
      << LN(5, 45, 15, 47, 1), HG("a", 0, 20, 10, "Times"),
         HG("a", 5, 20, 10, "CMMI10"), HG("b", 12, 20, 10, "ABCDEF+CMSY10"),
         HG("a", 60, 20, 10, "Times") >>,
      \* lines of the page, thin and thick, before a paragraph
      << LN(5, 18, 15, 18, 1), LN(5, 18, 15, 18, 6), LN(5, 45, 15, 47, 5),
         HG("a", 0, 20, 10, "Times") >>,
      \* a formula with a thin line, a line of width 5 and a thick line
      << HG("a", 0, 20, 10, "Times"), HG("a", 5, 20, 10, "CMMI10"),
         LN(5, 18, 15, 18, 1), LN(5, 19, 15, 19, 5), LN(5, 17, 15, 17, 6),
         HG("a", 12, 20, 10, "Times") >> }

\* strings a backend may return
BackendStrings ==
    { <<>>,
      <<"z", "h">>,
      <<"zh", "zh", "zh", "zh">>,
      <<"a", "{", "v", "0", "}", "b">>,
      <<"{", "v", "1", "}", "a", "{", "v", "0", "}">>,
      <<"{", "v", "0", "}", "{", "v", "0", "}">>,
      <<"{", "v", "0", "}", "a", "{", "v", "0", "}">>,
      <<"a", "{", "v", "5", "}", "b">>,
      <<"a", "{", "v", " ", "}", "b">>,
      <<"a", "{", " ", "V", "0", " ", "}", "b">>,
      <<"a", "{", "v", "}", "b">>,
      <<"a", "{", "v", "1", " ", "2", "}", "b">>,
      <<"a", "\n", "b", " ", "a", "b", "a">>,
      <<"zh", "{", "v", "0", "}", "zh", "\n", "a", "zh", "zh">> }

\* one returned string for each template: the template itself or another
RECURSIVE NewsFor(_)
NewsFor(stk) ==
    IF stk = <<>> THEN {<<>>}
    ELSE { <<h>> \o r : h \in BackendStrings \cup {Head(stk)}, r \in NewsFor(Tail(stk)) }

\* the variables of the scan after the page
Scanned(page) ==
    \E st \in {ScanOf(NewScan, page)} :
              /\ nchild = Len(page)
              /\ sstk = st.sstk
              /\ pstk = st.pstk
              /\ vbkt = st.vbkt
              /\ vstk = st.vstk
              /\ vlstk = st.vlstk
              /\ vfix = st.vfix
              /\ var = st.var
              /\ varl = st.varl
              /\ varf = st.varf
              /\ vlen = [k \in 1..Len(st.var) |-> FormulaWidth(st.var[k])]
              /\ lstk = st.lstk
              /\ xt = st.xt
              /\ xt_cls = st.xt_cls
              /\ vertical_chars = st.vertical_chars
              /\ vpar = st.vpar
              /\ varp = st.varp

InitLayout ==
    /\ pc = "layout"
    /\ PoolIdle
    /\ LayoutIdle
    /\ Constructed
    /\ SideIdle
    /\ default_line_height \in LineHeights
    /\ \E page \in Pages : Scanned(page)
    /\ news \in NewsFor(sstk)


\* re-layout of returned strings over scanned pages
SpecLayout == InitLayout /\ [][NextLayout]_vars

\* the children of the pages that are passed through
PassChildren ==
    { HG("a", 0, 20, 10, "Times"), HG("b", 5, 20, 10, "Times"),
      HG("a", 12, 20, 10, "Times"), HG("b", 10, 20, 10, "Times"),
      HG("b", 0, 8, 10, "Times"), HG(" ", 10, 20, 10, "Times"),
      HG("b", 10, 24, 7, "Times"), HG("a", 5, 20, 12, "Times"),
      HG("a", 5, 20, 10, "CMMI10"), HG("hat", 12, 22, 10, "CMMI10"),
      VG("a", 40, 30, -1), LN(5, 18, 15, 18, 1) }

MaxPassChildren == 4

PassPages == UNION { [1..n -> PassChildren] : n \in 0..MaxPassChildren }

InitPass ==
    /\ pc = "scanned"
    /\ DispatchIdle
    /\ LayoutIdle
    /\ Constructed
    /\ SideIdle
    /\ default_line_height \in LineHeights
    /\ \E page \in PassPages : Scanned(page)

NextPass == PassThrough \/ NextLayout

\* scan, identity translation, re-layout
SpecPass == InitPass /\ [][NextPass]_vars

(***************************************************************************)
(* Claims about the re-layout.                                             *)
(***************************************************************************)
\* paragraph i has been laid out
LaidOut(i) == i < id \/ (i = id /\ pc \in {"layout", "done"})

\* the operators emitted for paragraph i, in order
OpsOf(i) == SelectSeq(ops_list, LAMBDA o : o.par = i)

\* the characters of a string that a vertical paragraph draws: newlines and
\* markers are passed over
RECURSIVE Drawn(_)
Drawn(s) ==
    IF s = <<>> THEN <<>>
    ELSE IF Head(s) = "\n" THEN Drawn(Tail(s))
         ELSE IF vy_regex(s).ok THEN Drawn(SubSeq(s, vy_regex(s).len + 1, Len(s)))
              ELSE <<Head(s)>> \o Drawn(Tail(s))

DownwardColumns ==
    { i \in 1..Len(pstk) : pstk[i].vertical /\ pstk[i].vertical_direction = -1 /\ LaidOut(i) }

\* C9 as stated: a vertical paragraph of direction -1 with n captured
\* positions emits exactly n vertical operators, at those positions in order,
\* whatever the length of the translated string.
C9_ExactlyNOperators ==
    \A i \in DownwardColumns :
        LET pos == pstk[i].vertical_positions
            o == OpsOf(i)
        IN  /\ Len(o) = Len(pos)
            /\ \A k \in 1..Len(pos) :
                  o[k].op = "vertical" /\ o[k].x = pos[k][1] /\ o[k].y = 20 * pos[k][2]

\* C9, amended: a vertical paragraph of direction -1 emits one vertical
\* operator for each character of the translated string that is neither a
\* newline nor part of a marker; the k-th of them is at the k-th captured
\* position while there is one, and each later one is a step of
\* direction * spacing beyond the one before it, from the last captured position.
C9_VerticalRoundTrip ==
    \A i \in DownwardColumns :
        LET pos == pstk[i].vertical_positions
            n == Len(pos)
            o == OpsOf(i)
            d == Drawn(news[i])
        IN  /\ Len(o) = Len(d)
            /\ \A k \in 1..Len(o) :
                  /\ o[k].op = "vertical"
                  /\ o[k].rtxt = <<d[k]>>
                  /\ o[k].direction = -1
                  /\ IF k <= n
                     THEN o[k].x = pos[k][1] /\ o[k].y = 20 * pos[k][2]
                     ELSE /\ n > 0
                          /\ o[k].x = pos[n][1]
                          /\ o[k].y = 20 * pos[n][2]
                                        - (k - n) * 10 * pstk[i].vertical_spacing

\* a column of three captured positions has drawn five characters, two of
\* them below the last captured position
C9_Witness ==
    \E i \in DownwardColumns :
        /\ Len(pstk[i].vertical_positions) = 3
        /\ Len(OpsOf(i)) = 5
        /\ OpsOf(i)[3].y = 200
        /\ OpsOf(i)[5].y = -200

\* the horizontal loop is at a marker that names no group
BadMarkerAhead ==
    /\ pc = "horizontal"
    /\ ptr <= Len(news[id])
    /\ LET m == vy_regex(SubSeq(news[id], ptr, Len(news[id])))
       IN  m.ok /\ ~GroupIndex(m).ok

MarkerEnd == ptr + vy_regex(SubSeq(news[id], ptr, Len(news[id]))).len

\* C10: a marker in the translated string of a horizontal paragraph whose
\* index names no formula group, or holds no digit, is consumed and nothing
\* else changes: no operator is queued or emitted, and the run buffer, the
\* font, the cursor and the line index stay; whatever markers the string
\* holds, every turn of the loop consumes some of it and leaves the layout
\* in the loop.
C10_MalformedPlaceholder ==
    [][/\ BadMarkerAhead =>
            /\ ptr' = MarkerEnd
            /\ UNCHANGED <<cstk, fcur, fcur_, x, tx, lidx, ops_vals, ops_list>>
       /\ (pc = "horizontal" /\ ptr <= Len(news[id])) =>
            /\ pc' = "horizontal"
            /\ ptr' > ptr
            /\ id' = id]_vars

\* the marker {v5} of "a{v5}b" has been passed over with the run "a" pending
C10_Witness ==
    /\ pc = "horizontal"
    /\ news[id] = <<"a", "{", "v", "5", "}", "b">>
    /\ ptr = 6
    /\ cstk = <<"a">>
    /\ ops_vals = <<>>

\* the horizontal paragraphs that have been laid out
HorizontalDone == { i \in 1..Len(pstk) : ~pstk[i].vertical /\ LaidOut(i) }

XBound(i) == \A k \in 1..Len(OpsOf(i)) : 10 * OpsOf(i)[k].x <= 10 * pstk[i].x1 + pstk[i].size
YBound(i) == \A k \in 1..Len(OpsOf(i)) : OpsOf(i)[k].y <= 20 * (pstk[i].y1 + pstk[i].size)
AtAnchor(i) ==
    OpsOf(i) # <<>> => OpsOf(i)[1].x = pstk[i].x /\ OpsOf(i)[1].y = 20 * pstk[i].y

\* C8 as stated: with a translator that returns its input unchanged, no
\* operator of a horizontal paragraph is placed with x > x1 + 0.1 * size or
\* with y > y1 + size after the line height is settled, and the first
\* operator of the paragraph is at the paragraph's anchor (x, y).
C8_PassThroughPlacement ==
    \A i \in HorizontalDone : XBound(i) /\ YBound(i) /\ AtAnchor(i)

\* the line operators of the stream
LineOps == SelectSeq(ops_list, LAMBDA o : o.op = "line")

\* the line operators emitted after the paragraphs, for the page's own lines
PageLineOps == SelectSeq(ops_list, LAMBDA o : o.op = "line" /\ o.par = 0)

\* the lines of the page's list that are thinner than 5
ThinPageLines == SelectSeq(lstk, LAMBDA l : l.linewidth < 5)

\* C11: no line of width >= 5 gives a line operator, be it a line of a
\* formula group or of the page's list, and when the stream is complete each
\* line of width < 5 of the page's list has given exactly one line operator.
C11_LineFiltering ==
    /\ \A k \in 1..Len(LineOps) : LineOps[k].linewidth < 5
    /\ pc = "done" =>
          /\ Len(PageLineOps) = Len(ThinPageLines)
          /\ \A k \in 1..Len(PageLineOps) :
                /\ PageLineOps[k].x = ThinPageLines[k].x0
                /\ PageLineOps[k].y = 20 * ThinPageLines[k].y0
                /\ PageLineOps[k].linewidth = ThinPageLines[k].linewidth

\* a complete stream over a page with lines of width 5 and 6, in a formula
\* and in the page's list, and with thin lines drawn
C11_Witness ==
    /\ pc = "done"
    /\ \/ \E k \in 1..Len(lstk) : lstk[k].linewidth >= 5
       \/ \E g \in 1..Len(varl) : \E k \in 1..Len(varl[g]) : varl[g][k].linewidth >= 5
    /\ LineOps # <<>>

IsPrefix(s, u) == Len(s) <= Len(u) /\ SubSeq(u, 1, Len(s)) = s

\* the place of an operator's source in the order of emission: the
\* paragraphs in the order of their creation, then the page's lines
Rank(o) == IF o.par = 0 THEN Len(pstk) + 1 ELSE o.par

OrderedByParagraph ==
    \A k \in 1..Len(ops_list) : \A l \in k..Len(ops_list) :
        Rank(ops_list[k]) <= Rank(ops_list[l])

\* the operators of the paragraph just emitted are its queue, in order
QueuedOrder ==
    /\ Len(OpsOf(id)) = Len(ops_vals)
    /\ \A k \in 1..Len(ops_vals) :
          /\ OpsOf(id)[k].x = ops_vals[k].x
          /\ IF ops_vals[k].type = "TEXT"
             THEN /\ OpsOf(id)[k].op = "Tm"
                  /\ OpsOf(id)[k].rtxt = ops_vals[k].rtxt
                  /\ OpsOf(id)[k].font = ops_vals[k].font
             ELSE /\ OpsOf(id)[k].op = "line"
                  /\ OpsOf(id)[k].linewidth = ops_vals[k].linewidth

\* the horizontal loop is at a marker of an existing group
GoodMarkerAhead ==
    /\ pc = "horizontal"
    /\ ptr <= Len(news[id])
    /\ LET m == vy_regex(SubSeq(news[id], ptr, Len(news[id])))
       IN  m.ok /\ GroupIndex(m).ok

GroupAhead == GroupIndex(vy_regex(SubSeq(news[id], ptr, Len(news[id])))).vid

\* the glyphs of the group at the cursor are queued one after the other in
\* the order of var[vid], after the flushed run if there was one
FormulaInOrder ==
    LET g == var[GroupAhead]
        s == Len(ops_vals) + (IF cstk # <<>> THEN 1 ELSE 0)
    IN  /\ Len(ops_vals') >= s + Len(g)
        /\ \A k \in 1..Len(g) :
              /\ ops_vals'[s + k].type = "TEXT"
              /\ ops_vals'[s + k].rtxt = <<g[k].text>>
              /\ ops_vals'[s + k].font = g[k].fontname
              /\ ops_vals'[s + k].x - ops_vals'[s + 1].x = g[k].x0 - g[1].x0

\* C12: the stream only grows at its end; the operators of a paragraph
\* created earlier precede those of a paragraph created later, and the
\* page's line operators follow all of them; a paragraph's operators are
\* emitted in the order they were queued, and the queue only grows at its
\* end; the glyphs of a formula group are queued in the order of capture.
C12_OutputOrdering ==
    [][/\ IsPrefix(ops_list, ops_list')
       /\ OrderedByParagraph'
       /\ (pc = "horizontal" /\ pc' = "layout") => QueuedOrder'
       /\ (pc = "horizontal" /\ pc' = "horizontal") => IsPrefix(ops_vals, ops_vals')
       /\ GoodMarkerAhead => FormulaInOrder]_vars

\* a complete stream: two paragraphs with operators, the two glyphs of a
\* formula group one after the other, and a line of the page at the end
C12_Witness ==
    /\ pc = "done"
    /\ Len(pstk) >= 2
    /\ OpsOf(1) # <<>>
    /\ OpsOf(2) # <<>>
    /\ PageLineOps # <<>>
    /\ \E k \in 1..(Len(ops_list) - 1) :
          /\ ops_list[k].op = "Tm" /\ ops_list[k].font = "CMMI10"
          /\ ops_list[k + 1].op = "Tm" /\ ops_list[k + 1].font = "ABCDEF+CMSY10"

\* the glyphs that stand in a formula group, closed or open
FormulaGlyphs ==
    UNION ({ {var[g][k] : k \in 1..Len(var[g])} : g \in 1..Len(var) }
           \cup { {vstk[k] : k \in 1..Len(vstk)} })

\* C13 as stated: a bullet glyph counts as a glyph of a body class, so the
\* class rule never makes it a formula glyph: a bullet in a body font (the
\* bullets of the pages are never smaller than their paragraph) stands in
\* the paragraph text, not in a formula group.
C13_BulletOverride ==
    \A g \in FormulaGlyphs : g.text = "bullet" => FontIsFormula(g.fontname)

(***************************************************************************)
(* The output string, as its sequence of tokens: kw is an operator of the  *)
(* content stream, or "operand" with the value written before it.          *)
(***************************************************************************)
Kw(k) == [kw |-> k]
Opd(v) == [kw |-> "operand", val |-> v]

\* "/{font} {size:f} Tf 1 0 0 1 {x:f} {y:f} Tm [<{rtxt}>] TJ "
gen_op_txt(font, size, ox, oy, rtxt) ==
    << Opd(font), Opd(size), Kw("Tf"), Opd(1), Opd(0), Opd(0), Opd(1), Opd(ox),
       Opd(oy), Kw("Tm"), Opd(rtxt), Kw("TJ") >>

\* "/{font} {size:f} Tf 0 1 -1 0 {x:f} {y:f} Tm [<{rtxt}>] TJ ", or 0 -1 1 0
gen_op_txt_vertical(font, size, ox, oy, rtxt, direction) ==
    << Opd(font), Opd(size), Kw("Tf"), Opd(0),
       Opd(IF direction >= 0 THEN 1 ELSE -1), Opd(IF direction >= 0 THEN -1 ELSE 1),
       Opd(0), Opd(ox), Opd(oy), Kw("Tm"), Opd(rtxt), Kw("TJ") >>

\* the line operator without leaving the text object
gen_op_lineInText(ox, oy, xlen, ylen, linewidth) ==
    << Kw("q"), Opd(1), Opd(0), Opd(0), Opd(1), Opd(ox), Opd(oy), Kw("cm"),
       Opd(<<>>), Opd(0), Kw("d"), Opd(0), Kw("J"), Opd(linewidth), Kw("w"),
       Opd(0), Opd(0), Kw("m"), Opd(xlen), Opd(ylen), Kw("l"), Kw("S"), Kw("Q") >>

\* "ET q 1 0 0 1 {x:f} {y:f} cm [] 0 d 0 J {linewidth:f} w 0 0 m {xlen:f}
\*  {ylen:f} l S Q BT "
gen_op_line(ox, oy, xlen, ylen, linewidth) ==
    << Kw("ET"), Kw("q"), Opd(1), Opd(0), Opd(0), Opd(1), Opd(ox), Opd(oy), Kw("cm"),
       Opd(<<>>), Opd(0), Kw("d"), Opd(0), Kw("J"), Opd(linewidth), Kw("w"),
       Opd(0), Opd(0), Kw("m"), Opd(xlen), Opd(ylen), Kw("l"), Kw("S"), Kw("Q"),
       Kw("BT") >>

\* the string of one operator of ops_list
OpString(o) ==
    IF o.op = "Tm" THEN gen_op_txt(o.font, o.size, o.x, o.y, o.rtxt)
    ELSE IF o.op = "vertical"
         THEN gen_op_txt_vertical(o.font, o.size, o.x, o.y, o.rtxt, o.direction)
         ELSE gen_op_line(o.x, o.y, o.xlen, o.ylen, o.linewidth)

\* "".join(ops_list)
RECURSIVE Join(_)
Join(l) == IF l = <<>> THEN <<>> ELSE OpString(Head(l)) \o Join(Tail(l))

\* ops = f"BT {''.join(ops_list)}ET "
ops == <<Kw("BT")>> \o Join(ops_list) \o <<Kw("ET")>>

\* the text objects open before token k: BT's less ET's among the first k - 1
Depth(s, k) ==
    Cardinality({j \in 1..(k - 1) : s[j].kw = "BT"})
      - Cardinality({j \in 1..(k - 1) : s[j].kw = "ET"})

\* C17: the output of a page with no paragraph and no line is "BT ET "; every
\* output starts with BT and ends with ET; BT and ET alternate strictly, so
\* no text object is nested; every line is stroked outside a text object and
\* every piece of text is shown inside one.
C17_StreamFraming ==
    pc = "done" =>
        /\ (pstk = <<>> /\ lstk = <<>>) => ops = <<Kw("BT"), Kw("ET")>>
        /\ ops[1].kw = "BT"
        /\ ops[Len(ops)].kw = "ET"
        /\ \A k \in 1..Len(ops) :
              /\ ops[k].kw = "BT" => Depth(ops, k) = 0
              /\ ops[k].kw = "ET" => Depth(ops, k) = 1
              /\ ops[k].kw \in {"q", "cm", "m", "l", "S", "Q"} => Depth(ops, k) = 0
              /\ ops[k].kw \in {"Tf", "Tm", "TJ"} => Depth(ops, k) = 1

\* a complete output with text before and after a line operator
C17_Witness ==
    /\ pc = "done"
    /\ \E i, j, k \in 1..Len(ops) :
          i < j /\ j < k /\ ops[i].kw = "TJ" /\ ops[j].kw = "S" /\ ops[k].kw = "TJ"

(***************************************************************************)
(* Claims about one turn of the scan loop: in every state the scan         *)
(* reaches, for every horizontal glyph that may come next.                 *)
(***************************************************************************)
\* the state the glyph's branch starts from: the vertical buffer is flushed
Cur == flush_vertical_chars(ScanState)

\* a glyph has been scanned before and a paragraph is open
HasPrevious(st) == st.xt.text # "none" /\ st.sstk # <<>>

\* the turn closed the open formula
Closed(st, r) == st.vstk # <<>> /\ Len(r.var) = Len(st.var) + 1

\* the glyph was stacked on the formula
InFormula(r, child) == r.vstk # <<>> /\ Last(r.vstk) = child

\* C22: a glyph more than vmax = page_width / 4 to the right of the previous
\* glyph, while the current template is not empty, closes the open formula
\* and the current paragraph: the glyph starts a new paragraph even in the
\* class of the previous glyph; a glyph in another class closes both too.
C22_WideGapClose ==
    pc = "scan" =>
        \A child \in HorizontalGlyphs : \A st \in {Cur} :
            \A r \in {CharStep(st, child)} :
                (/\ HasPrevious(st)
                 /\ \/ ClassOf(child) # st.xt_cls
                    \/ /\ Last(st.sstk) # <<>>
                       /\ 4 * (child.x0 - st.xt.x0) > PageWidth) =>
                    /\ Len(r.pstk) = Len(st.pstk) + 1
                    /\ st.vstk # <<>> => Closed(st, r)

\* the formula test of everything but the bracket rule
OtherRule(st, child) == IsFormulaGlyph(st, child, ClassOf(child))

\* C23: a "(" or ")" that no other rule makes a formula glyph is forced into
\* the formula, and changes vbkt, only while a formula is open: with no
\* formula open it is body text and vbkt keeps its value; vbkt is never
\* negative.
C23_ParenthesisOnlyInFormula ==
    /\ vbkt >= 0
    /\ pc = "scan" =>
          \A child \in HorizontalGlyphs : \A st \in {Cur} :
              \A r \in {CharStep(st, child)} :
                  (/\ child.text \in {"(", ")"}
                   /\ st.sstk # <<>> => ~OtherRule(st, child)
                   /\ st.sstk = <<>> => ClassOf(child) # 0
                   /\ st.vstk = <<>>) =>
                      /\ ~InFormula(r, child)
                      /\ r.vbkt = st.vbkt

\* C25: the text of a vertical paragraph is the text of its own run: a
\* horizontal glyph that follows the run is not appended to the vertical
\* paragraph and changes neither its box, its size nor its brk flag; it
\* continues or starts a horizontal paragraph.
C25_VerticalStaysSeparate ==
    pc = "scan" =>
        \A child \in HorizontalGlyphs : \A st \in {Cur} :
            \A r \in {CharStep(st, child)} :
                (st.pstk # <<>> /\ Last(st.pstk).vertical) =>
                    /\ r.sstk[Len(st.sstk)] = Last(st.sstk)
                    /\ r.pstk[Len(st.pstk)] = Last(st.pstk)
                    /\ ~Last(r.pstk).vertical

\* the glyph joined the current paragraph
Joined(st, r) == HasPrevious(st) /\ Len(r.pstk) = Len(st.pstk)

\* a wrap in the source: the glyph ends left of where the previous one began
Wraps(st, child) == child.x1 < st.xt.x0

\* the glyph went on with the formula that was open
Continues(st, r) == st.vstk # <<>> /\ ~Closed(st, r)

\* what the turn added to the current template
Added(st, r) == SubSeq(Last(r.sstk), Len(Last(st.sstk)) + 1, Len(Last(r.sstk)))

\* C26 as stated: brk becomes true exactly when a glyph of the paragraph
\* wraps, be it a body glyph or a formula glyph; brk is never cleared.
C26_WrapFlagAnyGlyph ==
    pc = "scan" =>
        \A child \in HorizontalGlyphs : \A st \in {Cur} :
            \A r \in {CharStep(st, child)} :
                Joined(st, r) =>
                    /\ Last(r.pstk).brk <=> (Last(st.pstk).brk \/ Wraps(st, child))

\* C26: brk of the current paragraph becomes true exactly when a glyph that
\* joins it without continuing an open formula (a body glyph, or the first
\* glyph of a formula) ends left of where the previous glyph began; one space
\* is then put in the template before the glyph; a wrap at a glyph that
\* continues an open formula sets nothing; brk is never cleared.
C26_WrapFlag ==
    pc = "scan" =>
        \A child \in HorizontalGlyphs : \A st \in {Cur} :
            \A r \in {CharStep(st, child)} :
                Joined(st, r) =>
                    /\ Last(r.pstk).brk <=>
                          \/ Last(st.pstk).brk
                          \/ (Wraps(st, child) /\ ~Continues(st, r))
                    /\ (Wraps(st, child) /\ ~Continues(st, r)) =>
                          Added(st, r) \in
                             { (IF Closed(st, r) THEN Placeholder(Len(st.var)) ELSE <<>>)
                                 \o <<" ">> \o tail :
                               tail \in {<<>>, <<child.text>>} }

\* a wrapped paragraph, and a formula whose second glyph wrapped unnoticed
C26_Witness ==
    /\ pstk # <<>>
    /\ \/ /\ Last(pstk).brk
          /\ Len(Last(sstk)) >= 3
       \/ /\ ~Last(pstk).brk
          /\ Len(vstk) = 2
          /\ vstk[2].x1 < vstk[1].x0

RECURSIVE BodyChars(_)
BodyChars(s) ==
    IF s = <<>> THEN 0
    ELSE IF vy_regex(s).ok THEN BodyChars(SubSeq(s, vy_regex(s).len + 1, Len(s)))
         ELSE (IF IsSpace(Head(s)) THEN 0 ELSE 1) + BodyChars(Tail(s))

\* the length of a template between its first and its last non-blank character
Trimmed(s) ==
    LET nb == {k \in 1..Len(s) : ~IsSpace(s[k])}
    IN  IF nb = {} THEN 0 ELSE SetMax(nb) - SetMin(nb) + 1

\* a glyph that only the size rule can make a formula glyph
OnlyBySize(st, child) ==
    /\ st.sstk # <<>>
    /\ ClassOf(child) # 0
    /\ ~vflag(child.fontname, child.text)
    /\ child.text \notin {"(", ")"}

\* C28 as stated: the size rule makes a glyph a formula glyph exactly when it
\* is in the class of the previous glyph, the paragraph holds more than one
\* body character (blanks and placeholders not counted) and the glyph is
\* smaller than 0.79 times the paragraph size.
C28_SubscriptBodyChars ==
    pc = "scan" =>
        \A child \in HorizontalGlyphs : \A st \in {Cur} :
            \A r \in {CharStep(st, child)} :
                OnlyBySize(st, child) =>
                    (InFormula(r, child) <=>
                        /\ ClassOf(child) = st.xt_cls
                        /\ BodyChars(Last(st.sstk)) > 1
                        /\ 100 * child.size < 79 * Last(st.pstk).size)

\* C28: the size rule makes a glyph a formula glyph exactly when it is in the
\* class of the previous glyph, the template without its leading and
\* trailing blanks is longer than one character (inner blanks and the
\* characters of placeholders count) and the glyph is smaller than 0.79
\* times the paragraph size.
C28_SubscriptRule ==
    pc = "scan" =>
        \A child \in HorizontalGlyphs : \A st \in {Cur} :
            \A r \in {CharStep(st, child)} :
                OnlyBySize(st, child) =>
                    (InFormula(r, child) <=>
                        /\ ClassOf(child) = st.xt_cls
                        /\ Trimmed(Last(st.sstk)) > 1
                        /\ 100 * child.size < 79 * Last(st.pstk).size)

\* a small glyph made a formula glyph behind one body character and a
\* placeholder
C28_Witness ==
    /\ Len(vstk) = 1
    /\ vstk[1].size = 7
    /\ BodyChars(Last(sstk)) = 1
    /\ Trimmed(Last(sstk)) > 1

\* the glyphs of the formula groups captured by the scan, group by group
RECURSIVE Captured(_)
Captured(groups) ==
    IF groups = <<>> THEN <<>>
    ELSE [k \in 1..Len(Head(groups)) |->
             <<Head(groups)[k].fontname, Head(groups)[k].text>>]
         \o Captured(Tail(groups))

\* the text operators of the stream that draw a formula glyph: they carry
\* the glyph's own font, the text runs the Latin or the fallback font
RECURSIVE ReEmitted(_)
ReEmitted(l) ==
    IF l = <<>> THEN <<>>
    ELSE (IF Head(l).op = "Tm" /\ Head(l).font \notin {"tiro", "noto"}
          THEN << <<Head(l).font, Head(l).rtxt[1]>> >> ELSE <<>>)
         \o ReEmitted(Tail(l))

\* C24: with the templates returned unchanged, the finished stream holds one
\* text operator for each glyph of each captured formula group, once, in
\* the order of capture, whatever the page's children were.
C24_NoFormulaLost ==
    pc = "done" => ReEmitted(ops_list) = Captured(var)

\* the paragraph's operators are being emitted
Emitting == pc = "horizontal" /\ pc' = "layout"

\* the operators emitted for the paragraph stand at line height lh
LineHeightUsed(lh) ==
    /\ Len(ops_list') = Len(ops_list) + Len(ops_vals')
    /\ \A k \in 1..Len(ops_vals') :
          ops_list'[Len(ops_list) + k].y =
              20 * (ops_vals'[k].dy + pstk[id].y)
                  - ops_vals'[k].lidx * pstk[id].size * lh

\* (lidx + 1) * size * line_height <= height
Fits(lh) == (lidx + 1) * pstk[id].size * lh <= 20 * (pstk[id].y1 - pstk[id].y0)

\* C29 as stated: the operators of a horizontal paragraph are emitted at a
\* line height, reached from the default in steps of 0.05, for which
\* (lidx + 1) * size * line_height <= height.
C29_LineHeightFits ==
    [][Emitting =>
          \E lh \in 0..default_line_height : LineHeightUsed(lh) /\ Fits(lh)]_vars

\* C29: the operators of a horizontal paragraph are emitted at a line
\* height, reached from the default in steps of 0.05, for which
\* (lidx + 1) * size * line_height <= height or which is below 1.0, and no
\* step was taken from a height that is one of these.
C29_LineHeightFloor ==
    [][Emitting =>
          \E lh \in 0..default_line_height :
              /\ LineHeightUsed(lh)
              /\ Fits(lh) \/ ~AtLeastOne(lh)
              /\ \A h \in (lh + 1)..default_line_height :
                    ~Fits(h) /\ AtLeastOne(h)]_vars

\* a paragraph of several lines has been emitted, its second line below
\* the first by a line height that is less than the default and at which
\* the lines do not fit the paragraph's height: the loop stopped below 1.0
C29_Witness ==
    /\ pc = "layout"
    /\ id > 0
    /\ ~pstk[id].vertical
    /\ lidx >= 2
    /\ \E lh \in 1..(default_line_height - 1) :
          /\ ~Fits(lh)
          /\ \E k \in 1..Len(ops_vals) : \E o \in {OpsOf(id)[k]} :
                /\ ops_vals[k].lidx = 1
                /\ o.y = 20 * (ops_vals[k].dy + pstk[id].y) - pstk[id].size * lh

\* the string is made of markers only
RECURSIVE OnlyMarkers(_)
OnlyMarkers(s) ==
    IF s = <<>> THEN TRUE
    ELSE \E m \in {vy_regex(s)} :
            m.ok /\ OnlyMarkers(SubSeq(s, m.len + 1, Len(s)))

\* the cursor at which the group is placed: the paragraph's left edge if
\* the group overruns the right edge of a wrapped paragraph
SpliceCursor ==
    IF pstk[id].brk /\ Overrun(x, vlen[GroupAhead], pstk[id]) THEN pstk[id].x0 ELSE x

\* the buffered run is queued, then one text operator for each glyph of the
\* group at the cursor, with the glyph's font and size, raised by fix
Spliced(fix) ==
    LET g == var[GroupAhead]
        s == Len(ops_vals) + (IF cstk # <<>> THEN 1 ELSE 0)
    IN  /\ Len(ops_vals') >= s + Len(g)
        /\ IsPrefix(ops_vals, ops_vals')
        /\ cstk # <<>> => ops_vals'[s].type = "TEXT" /\ ops_vals'[s].rtxt = cstk
        /\ cstk' = <<>>
        /\ \A k \in 1..Len(g) : \E o \in {ops_vals'[s + k]} :
              /\ o.type = "TEXT"
              /\ o.font = g[k].fontname
              /\ o.size = g[k].size
              /\ o.rtxt = <<g[k].text>>
              /\ o.x = SpliceCursor + g[k].x0 - g[1].x0
              /\ o.dy = fix + g[k].y0 - g[1].y0

\* C30 as stated: at every valid marker of a horizontal paragraph's string
\* the glyphs of the group are queued after the run before the marker, each
\* with its own font and size, x = cursor + g.x0 - group[0].x0 and
\* dy = y_fix[N] + g.y0 - group[0].y0, wherever the marker stands.
C30_SpliceOffsetAnywhere ==
    [][GoodMarkerAhead => Spliced(varf[GroupAhead])]_vars

\* C30: at every valid marker of a horizontal paragraph's string the glyphs
\* of the group are queued after the run before the marker, each with its
\* own font and size, x = cursor + g.x0 - group[0].x0 and
\* dy = y_fix[N] + g.y0 - group[0].y0 if a plain character stands before
\* the marker in the string, dy = g.y0 - group[0].y0 if only markers do.
C30_SpliceOffset ==
    [][GoodMarkerAhead =>
          Spliced(IF OnlyMarkers(SubSeq(news[id], 1, ptr - 1)) THEN 0
                  ELSE varf[GroupAhead])]_vars

\* a group whose correction is not zero has been placed twice in one
\* paragraph: at the head of the string without the correction, after a
\* plain character with it
C30_Witness ==
    /\ pc = "horizontal"
    /\ Len(varf) = 1
    /\ varf[1] # 0
    /\ \E k \in 1..Len(ops_vals) : \E l \in (k + 1)..Len(ops_vals) :
          /\ ops_vals[k].font = "CMMI10" /\ ops_vals[k].dy = 0
          /\ ops_vals[l].font = "CMMI10" /\ ops_vals[l].dy = varf[1]

\* a turn of the horizontal loop that places an element: a character or the
\* group of a valid marker
Placing ==
    /\ pc = "horizontal"
    /\ pc' = "horizontal"
    /\ ptr' # ptr
    /\ \E m \in {vy_regex(SubSeq(news[id], ptr, Len(news[id])))} :
          m.ok => GroupIndex(m).ok

\* the advance of the element at ptr
NextAdvance ==
    IF GoodMarkerAhead THEN vlen[GroupAhead]
    ELSE Advance(FontFor(news[id][ptr]), news[id][ptr], pstk[id].size)

\* the element at ptr would overrun x1 + 0.1 * size
WouldOverrun == Overrun(x, NextAdvance, pstk[id])

\* the element at ptr has been placed at the paragraph's left edge on the
\* line after the current one
OnNewLine ==
    /\ lidx' = lidx + 1
    /\ IF GoodMarkerAhead
       THEN /\ ops_vals'[Len(ops_vals')].lidx = lidx + 1
            /\ \E k \in 1..Len(ops_vals') :
                  /\ ops_vals'[k].lidx = lidx + 1
                  /\ ops_vals'[k].x = pstk[id].x0
                  /\ ops_vals'[k].rtxt = <<var[GroupAhead][1].text>>
            /\ x' = pstk[id].x0 + vlen[GroupAhead] - Modifier(var[GroupAhead])
       ELSE /\ tx' = pstk[id].x0
            /\ \/ cstk' = <<news[id][ptr]>> /\ x' = pstk[id].x0 + NextAdvance
               \/ news[id][ptr] = " " /\ cstk' = <<>> /\ x' = pstk[id].x0

\* C31 as stated: in a turn that places an element the line index goes up
\* by one, and the element stands at the paragraph's left edge on the new
\* line, exactly when the paragraph's brk is true and the element would
\* overrun x1 + 0.1 * size; in a paragraph whose brk is false the line index
\* is 0 in every queued operator and the cursor never moves left.
C31_CursorNeverLeft ==
    [][Placing =>
          /\ IF pstk[id].brk /\ WouldOverrun THEN OnNewLine ELSE lidx' = lidx
          /\ ~pstk[id].brk =>
                /\ lidx' = 0
                /\ x' >= x
                /\ \A k \in 1..Len(ops_vals') : ops_vals'[k].lidx = 0]_vars

\* the cursor moves left only by a group whose last glyph is a modifier
\* wider than the group
MovesLeftByModifier ==
    /\ GoodMarkerAhead
    /\ Modifier(var[GroupAhead]) > vlen[GroupAhead]
    /\ x' = x + vlen[GroupAhead] - Modifier(var[GroupAhead])

\* C31: in a turn that places an element the line index goes up by one,
\* and the element stands at the paragraph's left edge on the new line,
\* exactly when the paragraph's brk is true and the element would overrun
\* x1 + 0.1 * size; in every other turn the line index stays; in a paragraph
\* whose brk is false the line index is 0 in every queued operator and the
\* cursor moves left only by a formula group whose last glyph is a modifier
\* wider than the group.
C31_LineBreakRule ==
    [][Placing =>
          /\ IF pstk[id].brk /\ WouldOverrun THEN OnNewLine ELSE lidx' = lidx
          /\ ~pstk[id].brk =>
                /\ lidx' = 0
                /\ x' >= x \/ MovesLeftByModifier
                /\ \A k \in 1..Len(ops_vals') : ops_vals'[k].lidx = 0]_vars

\* a formula group has been placed at the left edge of the second line of
\* a wrapped paragraph
C31_Witness ==
    /\ pc = "horizontal"
    /\ pstk[id].brk
    /\ lidx = 1
    /\ ops_vals # <<>>
    /\ ops_vals[Len(ops_vals)].font = "CMMI10"
    /\ ops_vals[Len(ops_vals)].lidx = 1
    /\ ops_vals[Len(ops_vals)].x = pstk[id].x0
    /\ ops_vals[1].lidx = 0

\* the characters of a string that are not part of a marker
RECURSIVE Plain(_)
Plain(s) ==
    IF s = <<>> THEN <<>>
    ELSE LET m == vy_regex(s)
         IN  IF m.ok THEN Plain(SubSeq(s, m.len + 1, Len(s)))
             ELSE <<Head(s)>> \o Plain(Tail(s))

\* the characters of the queued text runs, in order
RECURSIVE RunChars(_)
RunChars(vals) ==
    IF vals = <<>> THEN <<>>
    ELSE (IF Head(vals).type = "TEXT" /\ Head(vals).font \in {"tiro", "noto"}
          THEN Head(vals).rtxt ELSE <<>>) \o RunChars(Tail(vals))

\* kept is full with some of its spaces left out
RECURSIVE SpacesLeftOut(_, _)
SpacesLeftOut(full, kept) ==
    IF full = <<>> THEN kept = <<>>
    ELSE \/ kept # <<>> /\ Head(kept) = Head(full)
            /\ SpacesLeftOut(Tail(full), Tail(kept))
         \/ Head(full) = " " /\ SpacesLeftOut(Tail(full), kept)

\* the turn reads a plain character
CharAhead ==
    /\ pc = "horizontal"
    /\ ptr <= Len(news[id])
    /\ ~vy_regex(SubSeq(news[id], ptr, Len(news[id]))).ok

\* the buffered run must be queued before the element at ptr is placed
MustFlush ==
    \/ GoodMarkerAhead
    \/ CharAhead /\ (FontFor(news[id][ptr]) # fcur \/ WouldOverrun)

\* the buffered run is the operator queued next
RunQueued ==
    /\ Len(ops_vals') > Len(ops_vals)
    /\ \E o \in {ops_vals'[Len(ops_vals) + 1]} :
          /\ o.type = "TEXT"
          /\ o.rtxt = cstk
          /\ o.font = fcur
          /\ o.lidx = lidx
          /\ o.x = tx

\* the flush rule, a turn of the loop or the end of the paragraph
FlushRule ==
    /\ (Placing /\ MustFlush /\ cstk # <<>>) => RunQueued
    /\ (Placing /\ ~MustFlush) => ops_vals' = ops_vals /\ IsPrefix(cstk, cstk')
    /\ (Emitting /\ cstk # <<>>) => RunQueued /\ Len(ops_vals') = Len(ops_vals) + 1
    /\ (Emitting /\ cstk = <<>>) => ops_vals' = ops_vals

\* the character read is the last of the buffered run, or a space left out
\* at the paragraph's left edge
CharBuffered ==
    (Placing /\ CharAhead) =>
        \/ cstk' # <<>> /\ Last(cstk') = news[id][ptr]
        \/ news[id][ptr] = " " /\ cstk' = <<>> /\ x' = pstk[id].x0

\* every queued run is in one font
OneFont ==
    \A k \in 1..Len(ops_vals') : \E o \in {ops_vals'[k]} :
        (o.type = "TEXT" /\ o.font \in {"tiro", "noto"}) =>
            \A i \in 1..Len(o.rtxt) : FontFor(o.rtxt[i]) = o.font

\* the plain characters of the string are the characters of the runs, in
\* order, but for spaces left out
AllInRuns ==
    Emitting => SpacesLeftOut(Plain(news[id]), RunChars(ops_vals'))

\* C32 as stated: the flush rule; every run is in one font and on one line;
\* the buffered run is made of characters that follow one another in the
\* translated string; every character outside the markers is in exactly one
\* run, in order, but for spaces left out at the paragraph's left edge.
C32_RunsConsecutiveInString ==
    [][/\ FlushRule
       /\ CharBuffered
       /\ OneFont
       /\ AllInRuns
       /\ (Placing /\ cstk' # <<>>) =>
             cstk' = SubSeq(news[id], ptr' - Len(cstk'), ptr' - 1)]_vars

\* C32: the flush rule; every run is in one font and on one line; the
\* buffered run is made of characters that follow one another among the
\* characters outside the markers (a marker that names no group is passed
\* over without a flush); every character outside the markers is in exactly
\* one run, in order, but for spaces left out at the paragraph's left edge.
C32_RunFlushing ==
    [][/\ FlushRule
       /\ CharBuffered
       /\ OneFont
       /\ AllInRuns
       /\ (Placing /\ cstk' # <<>>) =>
             \E before \in {Plain(SubSeq(news[id], 1, ptr' - 1))} :
                 cstk' = SubSeq(before, Len(before) - Len(cstk') + 1, Len(before))]_vars

\* a paragraph's runs are queued: a run cut by a font change, a run that
\* spans a marker naming no group, a space left out
C32_Witness ==
    /\ pc = "layout"
    /\ id > 0
    /\ ~pstk[id].vertical
    /\ news[id] = <<"a", "{", "v", "5", "}", "b">>
    /\ RunChars(ops_vals) = <<"a", "b">>
    /\ Len(ops_vals) = 1

\* the characters of a string that are not blank
RECURSIVE NonSpace(_)
NonSpace(s) ==
    IF s = <<>> THEN 0
    ELSE (IF IsSpace(Head(s)) THEN 0 ELSE 1) + NonSpace(Tail(s))

\* the size and the anchor y of the current paragraph before the glyph's
\* text is stacked: those of the paragraph joined, or of the one the glyph
\* has just started
SizeBefore(st, r, child) ==
    IF Len(r.pstk) = Len(st.pstk) THEN Last(st.pstk).size ELSE child.size
YBefore(st, r, child) ==
    IF Len(r.pstk) = Len(st.pstk) THEN Last(st.pstk).y ELSE child.y0

\* the template without the glyph's own text, which is its last character
TemplateBefore(r) == SubSeq(Last(r.sstk), 1, Len(Last(r.sstk)) - 1)

\* C33: a body glyph that is not a space and is larger than the paragraph,
\* or comes when the template holds exactly one character that is not a
\* space, gives the paragraph its size and moves the anchor y by the
\* difference, so that y + size stays; any other glyph leaves size and y as
\* they were; the size of a paragraph is positive.
C33_SizeBump ==
    /\ \A k \in 1..Len(pstk) : pstk[k].size > 0
    /\ pc = "scan" =>
          \A child \in HorizontalGlyphs : \A st \in {Cur} :
              \A r \in {CharStep(st, child)} : \E q \in {Last(r.pstk)} :
                  IF /\ ~InFormula(r, child)
                     /\ child.text # " "
                     /\ \/ child.size > SizeBefore(st, r, child)
                        \/ NonSpace(TemplateBefore(r)) = 1
                  THEN /\ q.size = child.size
                       /\ q.y + q.size = YBefore(st, r, child) + SizeBefore(st, r, child)
                  ELSE /\ q.size = SizeBefore(st, r, child)
                       /\ q.y = YBefore(st, r, child)

\* a second glyph larger than the first has raised the paragraph's size
\* from 10 to 12 and moved the anchor from 20 to 18
C33_Witness ==
    /\ pc = "scan"
    /\ Len(pstk) = 1
    /\ pstk[1].size = 12
    /\ pstk[1].y = 18
    /\ pstk[1].y1 = 32
    /\ Len(sstk[1]) >= 2

\* the glyphs that may come next, with a formula glyph far to the right of
\* the others on a baseline of its own
GlyphsAhead == HorizontalGlyphs \cup {HG("a", 27, 23, 10, "CMMI10")}

\* the glyph closes the formula from its right: a body glyph of the class,
\* right of every glyph of the formula
ClosedFromRight(st, r, child) ==
    /\ ~InFormula(r, child)
    /\ ClassOf(child) = st.xt_cls
    /\ \A k \in 1..Len(st.vstk) : child.x0 > st.vstk[k].x0

\* the glyph opens a formula with a body glyph of its class to its left
OpenedAfterBody(st, child) ==
    /\ st.vstk = <<>>
    /\ HasPrevious(st)
    /\ ClassOf(child) = st.xt_cls
    /\ child.x0 > st.xt.x0

\* C34: the y_fix recorded for a group is formula[0].y0 - right.y0 when a
\* body glyph of the same class, right of every glyph of the formula,
\* closes it; otherwise it is the value taken when the formula was opened:
\* first.y0 - left.y0 if the formula was opened in the class of a body glyph
\* to its left, and 0 if not; the value is 0 again after each close.
C34_FormulaYFix ==
    /\ vstk = <<>> => vfix = 0
    /\ pc = "scan" =>
          \A child \in GlyphsAhead : \A st \in {Cur} : \A r \in {CharStep(st, child)} :
              /\ Closed(st, r) =>
                    /\ Last(r.varf) = IF ClosedFromRight(st, r, child)
                                      THEN st.vstk[1].y0 - child.y0 ELSE st.vfix
                    /\ ~InFormula(r, child) => r.vfix = 0
              /\ (InFormula(r, child) /\ Len(r.vstk) = 1) =>
                    r.vfix = IF OpenedAfterBody(st, child)
                             THEN child.y0 - st.xt.y0 ELSE 0

\* the anchors of the vertical paragraphs, in the order of the paragraphs
VerticalPositions(stk) ==
    LET vp == SelectSeq(stk, LAMBDA p : p.vertical)
    IN  [k \in 1..Len(vp) |-> vp[k].vertical_positions]

\* the anchors of buffered glyphs
Anchors(chars) == {<<chars[k].x0, chars[k].y0>> : k \in 1..Len(chars)}

\* consecutive glyphs are at most the threshold apart in x0
IsRun(chars) ==
    \A k \in 1..(Len(chars) - 1) :
        Abs(chars[k + 1].x0 - chars[k].x0) <= VERTICAL_X_THRESHOLD

\* the joined text of the glyphs is only whitespace
Blank(chars) == \A k \in 1..Len(chars) : IsSpace(chars[k].text)

\* the step from st to r flushed the buffer of st: a buffer with text gave
\* one more vertical paragraph, built from the buffered glyphs and from no
\* other; an empty or blank buffer gave none
FlushedFirst(st, r) ==
    \A before \in {VerticalPositions(st.pstk)} : \A after \in {VerticalPositions(r.pstk)} :
        IF Blank(st.vertical_chars)
        THEN after = before
        ELSE /\ Len(after) = Len(before) + 1
             /\ SubSeq(after, 1, Len(before)) = before
             /\ Len(Last(after)) = Len(st.vertical_chars)
             /\ {Last(after)[k] : k \in 1..Len(Last(after))} = Anchors(st.vertical_chars)

\* the glyph is further than the threshold from the last buffered glyph
Jumps(st, child) ==
    /\ st.vertical_chars # <<>>
    /\ Abs(child.x0 - Last(st.vertical_chars).x0) > VERTICAL_X_THRESHOLD

\* C35: the buffer of vertical glyphs is always a run of glyphs at most 2.0
\* apart in x0 from their predecessor; a vertical glyph joins the buffer, after
\* a flush when it jumps further; a horizontal glyph, a line, a figure and the
\* end of the page flush the buffer first and leave it empty; a flush gives
\* one paragraph holding exactly the buffered glyphs, and none for a buffer
\* whose text is only whitespace; the buffer is empty after the scan.
C35_VerticalRuns ==
    /\ IsRun(vertical_chars)
    /\ pc = "scanned" => vertical_chars = <<>>
    /\ pc = "scan" =>
          \A st \in {ScanState} :
              /\ \A child \in VerticalGlyphs : \A r \in {VerticalStep(st, child)} :
                    IF Jumps(st, child)
                    THEN r.vertical_chars = <<child>> /\ FlushedFirst(st, r)
                    ELSE /\ r.vertical_chars = Append(st.vertical_chars, child)
                         /\ r.pstk = st.pstk
                         /\ r.sstk = st.sstk
              /\ \A child \in HorizontalGlyphs : \A r \in {CharStep(st, child)} :
                    r.vertical_chars = <<>> /\ FlushedFirst(st, r)
              /\ \A l \in Lines : \A r \in {LineStep(st, l)} :
                    r.vertical_chars = <<>> /\ FlushedFirst(st, r)
              /\ \A r \in {flush_vertical_chars(st), EndStep(st)} :
                    r.vertical_chars = <<>> /\ FlushedFirst(st, r)

\* a run of two glyphs was flushed by the jump of a third, which began the
\* next run
C35_Witness ==
    /\ pc = "scan"
    /\ Len(pstk) = 1
    /\ pstk[1].vertical
    /\ Len(pstk[1].vertical_positions) = 2
    /\ Len(vertical_chars) = 1
    /\ Abs(vertical_chars[1].x0 - pstk[1].x) > VERTICAL_X_THRESHOLD

\* the page is one run of vertical glyphs with text
IsColumn(page) ==
    /\ page # <<>>
    /\ \A k \in 1..Len(page) : "matrix" \in DOMAIN page[k] /\ is_vertical_glyph(page[k])
    /\ IsRun(page)
    /\ ~Blank(page)

\* the run moves upwards: matrix[1] of its first glyph, or matrix[2] when
\* matrix[1] is zero, is positive
Upward(page) ==
    IF page[1].matrix[2] # 0 THEN page[1].matrix[2] > 0 ELSE page[1].matrix[3] > 0

\* the anchors of the glyphs in the order of the stream
StreamAnchors(page) == [k \in 1..Len(page) |-> <<page[k].x0, page[k].y0>>]

\* the positions go down the page, or up
Descending(pos) == \A k \in 1..(Len(pos) - 1) : pos[k][2] >= pos[k + 1][2]
Ascending(pos) == \A k \in 1..(Len(pos) - 1) : pos[k][2] <= pos[k + 1][2]

\* the four numbers before the position in the operator of o
MatrixOf(o) ==
    LET g == gen_op_txt_vertical(o.font, o.size, o.x, o.y, o.rtxt, o.direction)
    IN  <<g[4].val, g[5].val, g[6].val, g[7].val>>

\* every operator of paragraph i is a vertical one with matrix mx
DrawnWith(i, mx) ==
    \A k \in 1..Len(ops_list) :
        ops_list[k].par = i => ops_list[k].op = "vertical" /\ MatrixOf(ops_list[k]) = mx

\* C36 as stated: an upward run gives direction +1, the anchors of the stream
\* in reverse and operators with the matrix 0 1 -1 0; any other run gives
\* direction -1, positions by descending y0 and operators with 0 -1 1 0.
C36_AnchorsReversed ==
    \A page \in Pages :
        (IsColumn(page) /\ Scanned(page)) =>
            /\ Len(pstk) = 1
            /\ IF Upward(page)
               THEN /\ pstk[1].vertical_direction = 1
                    /\ pstk[1].vertical_positions = Reverse(StreamAnchors(page))
                    /\ DrawnWith(1, <<0, 1, -1, 0>>)
               ELSE /\ pstk[1].vertical_direction = -1
                    /\ Descending(pstk[1].vertical_positions)
                    /\ DrawnWith(1, <<0, -1, 1, 0>>)

\* C36, amended: the positions of an upward run are the anchors of its glyphs
\* by ascending y0, whatever the order of the stream.
C36_VerticalDirection ==
    \A page \in Pages :
        (IsColumn(page) /\ Scanned(page)) =>
            /\ Len(pstk) = 1
            /\ Len(pstk[1].vertical_positions) = Len(page)
            /\ {pstk[1].vertical_positions[k] : k \in 1..Len(page)} = Anchors(page)
            /\ IF Upward(page)
               THEN /\ pstk[1].vertical_direction = 1
                    /\ Ascending(pstk[1].vertical_positions)
                    /\ DrawnWith(1, <<0, 1, -1, 0>>)
               ELSE /\ pstk[1].vertical_direction = -1
                    /\ Descending(pstk[1].vertical_positions)
                    /\ DrawnWith(1, <<0, -1, 1, 0>>)

\* an upward run whose glyphs the stream lists from the bottom has been drawn
C36_Witness ==
    /\ pc = "done"
    /\ \E page \in Pages :
          /\ IsColumn(page) /\ Scanned(page) /\ Upward(page)
          /\ Len(page) = 2
          /\ pstk[1].vertical_positions = StreamAnchors(page)
    /\ Len(ops_list) = 2
    /\ MatrixOf(ops_list[1]) = <<0, 1, -1, 0>>

\* the glyphs of the page anchored at a position
GlyphsAt(page, pos) ==
    {k \in 1..Len(page) : page[k].x0 = pos[1] /\ page[k].y0 = pos[2]}

\* C37: a vertical paragraph produced by the flush has as many positions as
\* its text has characters, the i-th character is the text of the glyph
\* anchored at the i-th position, and when the translation is the text each
\* character is drawn at the anchor of its glyph.
C37_AnchorsMatchCharacters ==
    \A page \in Pages :
        (IsColumn(page) /\ Scanned(page)) =>
            \A pos \in {pstk[1].vertical_positions} :
                /\ Len(pos) = Len(sstk[1])
                /\ \A i \in 1..Len(sstk[1]) :
                      i <= Len(pos) /\ \A k \in GlyphsAt(page, pos[i]) :
                                          page[k].text = sstk[1][i]
                /\ (news[1] = sstk[1] /\ LaidOut(1)) =>
                      \A o \in {OpsOf(1)} :
                          /\ Len(o) = Len(sstk[1])
                          /\ \A i \in 1..Len(o) :
                                \A k \in GlyphsAt(page, <<o[i].x, o[i].y \div 20>>) :
                                    <<page[k].text>> = o[i].rtxt

\* the lists of a list, one after the other
RECURSIVE Concat(_)
Concat(l) == IF l = <<>> THEN <<>> ELSE Head(l) \o Concat(Tail(l))

\* the glyphs held as formula glyphs: those of the groups, then the open ones
GroupedGlyphs(st) == Concat(st.var) \o st.vstk

\* the characters of a template outside its markers, blanks left out; the
\* glyphs of the pages hold no brace, so every brace is a marker's
OutsideMarkers(s) ==
    Cardinality({k \in 1..Len(s) :
                    /\ ~IsSpace(s[k])
                    /\ s[k] # "}"
                    /\ ~\E i \in 1..k : s[i] = "{" /\ \A j \in i..(k - 1) : s[j] # "}"})

\* the same for all the templates
RECURSIVE TotalBody(_)
TotalBody(stk) ==
    IF stk = <<>> THEN 0 ELSE OutsideMarkers(Head(stk)) + TotalBody(Tail(stk))

\* the glyph is one more formula glyph and no body character
OneMoreFormulaGlyph(grouped, body, r, child) ==
    /\ GroupedGlyphs(r) = Append(grouped, child)
    /\ TotalBody(r.sstk) = body

\* the glyph is one more character of the last template and no formula glyph
OneMoreBodyGlyph(grouped, body, r, child) ==
    /\ GroupedGlyphs(r) = grouped
    /\ r.vstk = <<>>
    /\ Last(Last(r.sstk)) = child.text
    /\ TotalBody(r.sstk) = body + (IF IsSpace(child.text) THEN 0 ELSE 1)

\* C38: every horizontal glyph is placed in one place: either it is stacked
\* on the open formula and the templates gain no body character, or its text
\* is appended to the last template, which gains that character alone, and
\* the formula glyphs stay as they are; closing a formula drops no glyph of
\* it; after the scan every formula glyph is in a group, the last formula
\* included.
C38_GlyphPartition ==
    /\ pc = "scanned" => (vstk # <<>> => var # <<>> /\ Last(var) = vstk)
    /\ pc = "scan" =>
          \A st \in {Cur} : \A grouped \in {GroupedGlyphs(st)} : \A body \in {TotalBody(st.sstk)} :
              /\ \A child \in HorizontalGlyphs : \A r \in {CharStep(st, child)} :
                    IF InFormula(r, child)
                    THEN OneMoreFormulaGlyph(grouped, body, r, child)
                    ELSE OneMoreBodyGlyph(grouped, body, r, child)
              /\ \A r \in {EndStep(st)} :
                    Concat(r.var) = grouped /\ TotalBody(r.sstk) = body

\* a page of two body glyphs and two formulas, the second closed by the end
\* of the page
C38_Witness ==
    /\ pc = "scanned"
    /\ nchild = 4
    /\ Len(var) = 2
    /\ vstk # <<>>
    /\ TotalBody(sstk) = 2

\* the lists of the paragraphs, and those of the formula groups, are aligned
StacksAligned ==
    /\ Len(sstk) = Len(pstk)
    /\ vstk # <<>> => pstk # <<>>
    /\ pc # "scan" =>
          /\ Len(varl) = Len(var)
          /\ Len(varf) = Len(var)
          /\ Len(vlen) = Len(var)
    /\ pc \in {"layout", "vertical", "horizontal", "done"} => Len(news) = Len(pstk)
    /\ pc \in {"vertical", "horizontal"} => id \in 1..Len(pstk)

\* a step of the re-layout works on the string and the paragraph of one index
OwnParagraph ==
    /\ id' # id =>
          /\ id' \in 1..Len(pstk)
          /\ x' = pstk[id'].x
          /\ pc' = IF pstk[id'].vertical THEN "vertical" ELSE "horizontal"
    /\ (id' = id /\ lidx' # lidx) => pstk[id].brk
    /\ (id' = id /\ pc' # "done") =>
          \A k \in (Len(ops_list) + 1)..Len(ops_list') :
              \A o \in {ops_list'[k]} :
                  /\ o.par = id
                  /\ (o.op = "vertical" \/ (o.op = "Tm" /\ o.font \in {"tiro", "noto"}))
                        => o.size = pstk[id].size
                  /\ o.op = "vertical" =>
                        \/ <<o.x, o.y \div 20>> \in
                              {pstk[id].vertical_positions[j] :
                                   j \in 1..Len(pstk[id].vertical_positions)}
                        \/ positions_queue = <<>>

\* C39: the templates and the attributes of the paragraphs are lists of one
\* length, a paragraph exists whenever a formula is open, after the scan the
\* glyphs, lines, offsets and widths of the groups are lists of one length,
\* the translated list has one entry for each paragraph, and the re-layout
\* of each index works with the attributes of the paragraph of that index.
C39_AlignedStacks == []StacksAligned /\ [][OwnParagraph]_vars

\* two paragraphs and a formula closed by the end of the page have been laid out
C39_Witness ==
    /\ pc = "done"
    /\ Len(pstk) = 2
    /\ Len(news) = 2
    /\ vstk # <<>>
    /\ Len(vlen) = 1

(***************************************************************************)
(* D. The translator's cache.  BaseTranslator and the cache store are      *)
(* given by their contract; AutoIncreaseTranslator is the translator of    *)
(* the tests, whose do_translate counts its calls.                         *)
(***************************************************************************)
\* the converter is not at work
EngineIdle ==
    /\ ScanStart
    /\ DispatchIdle
    /\ LayoutIdle
    /\ Constructed
    /\ default_line_height = 22

pageAndPool == <<dispVars, pageVars, ctorVars>>

Texts == {"Hello World", "Different Text"}

\* the (key, value) pairs given to add_cache_impact_parameters
ParamPairs == {<<"test", "value">>, <<"test", "other">>, <<"test2", "value2">>}

\* def do_translate(self, text): self.n += 1; return str(self.n)
do_translateStale(n0, t) == [n |-> n0 + 1, ret |-> Str(1)]
do_translate(n0, t) == [n |-> n0 + 1, ret |-> Str(n0 + 1)]

\* cache.get(text) under the translator's parameters
Stored(c, p, t) == \E e \in c : e.params = p /\ e.text = t
CacheGet(c, p, t) ==
    IF Stored(c, p, t)
    THEN [some |-> TRUE,
          val |-> (CHOOSE e \in c : e.params = p /\ e.text = t).translation]
    ELSE [some |-> FALSE, val |-> <<>>]

\* cache.set(text, translation): one entry for a key
CacheSet(c, p, t, v) ==
    {e \in c : ~(e.params = p /\ e.text = t)}
        \cup {[params |-> p, text |-> t, translation |-> v]}

\* translate that never looks a text up
translateNoLookup(c, n0, attr, p, t, ic) ==
    LET r == do_translate(n0, t)
    IN  [cache |-> CacheSet(c, p, t, r.ret), n |-> r.n, ret |-> r.ret]

\* BaseTranslator.translate(text, ignore_cache=False): the stored value unless
\* the attribute or the argument says to ignore it; otherwise do_translate,
\* and the result is stored
translate(c, n0, attr, p, t, ic) ==
    IF ~(attr \/ ic) /\ Stored(c, p, t)
    THEN [cache |-> c, n |-> n0, ret |-> CacheGet(c, p, t).val]
    ELSE LET r == do_translate(n0, t)
         IN  [cache |-> CacheSet(c, p, t, r.ret), n |-> r.n, ret |-> r.ret]

InitCache ==
    /\ pc = "translator"
    /\ EngineIdle
    /\ MarkdownIdle
    /\ MergeIdle
    /\ cache = {}
    /\ auto_n = 0
    /\ ignore_cache \in BOOLEAN
    /\ params = NoParams
    /\ call = NoCall
    /\ result = <<>>
    /\ ncall = 0

\* translator.translate(text) or translator.translate(text, ignore_cache=True)
Translate ==
    /\ pc = "translator"
    /\ ncall < MaxCalls
    /\ \E t \in Texts, ic \in BOOLEAN :
          \E r \in {translate(cache, auto_n, ignore_cache, params, t, ic)} :
             /\ cache' = r.cache
             /\ auto_n' = r.n
             /\ result' = r.ret
             /\ call' = [text |-> t, ignore_cache |-> ignore_cache \/ ic,
                         params |-> params]
    /\ ncall' = ncall + 1
    /\ UNCHANGED <<ignore_cache, params, pageAndPool, mdVars, mergeVars>>

\* translator.add_cache_impact_parameters(k, v)
AddCacheImpactParameters ==
    /\ pc = "translator"
    /\ \E kv \in ParamPairs : params' = [params EXCEPT ![kv[1]] = kv[2]]
    /\ UNCHANGED <<cache, auto_n, ignore_cache, call, result, ncall, pageAndPool,
                   mdVars, mergeVars>>

\* translator.ignore_cache = b
SetIgnoreCache ==
    /\ pc = "translator"
    /\ ignore_cache' = ~ignore_cache
    /\ UNCHANGED <<cache, auto_n, params, call, result, ncall, pageAndPool, mdVars,
                   mergeVars>>

NextCache == Translate \/ AddCacheImpactParameters \/ SetIgnoreCache

SpecCache == InitCache /\ [][NextCache]_vars

\* a step that is a call of translate
Called == ncall' = ncall + 1

\* C18: with the cache in use, a call of translate for a text stored under
\* the current parameters returns the stored translation and does not call
\* do_translate; a call for a text that is not stored under the current
\* parameters (another text, or parameters changed by
\* add_cache_impact_parameters) calls do_translate once; the text of every
\* call is stored under its parameters afterwards, and no entry is lost.
C18_CacheHit ==
    [][/\ (Called /\ ~call'.ignore_cache) =>
             IF Stored(cache, params, call'.text)
             THEN /\ auto_n' = auto_n
                  /\ result' = CacheGet(cache, params, call'.text).val
             ELSE auto_n' = auto_n + 1
       /\ Called => Stored(cache', params, call'.text)
       /\ \A e \in cache : Stored(cache', e.params, e.text)]_vars

\* a hit, a miss on another text after it, and a miss after a change of the
\* parameters on a text that was stored under the earlier ones
C18_Witness ==
    /\ ncall >= 3
    /\ auto_n < ncall
    /\ ~call.ignore_cache
    /\ \E e1, e2, e3 \in cache :
          /\ e1.params = NoParams /\ e2.params = NoParams /\ e1.text # e2.text
          /\ e3.params # NoParams /\ e3.text = e1.text
          /\ e3.translation # e1.translation

\* the translations in the store
StoredValues == {e.translation : e \in cache}

MdChars == {"#", " ", "a", "\n"}

MdTexts == UNION {[1..k -> MdChars] : k \in 0..MaxText}

\* s.startswith(p)
startswith(s, p) == Len(s) >= Len(p) /\ SubSeq(s, 1, Len(p)) = p

\* str.splitlines(): the pieces between line ends, without one after the last
RECURSIVE splitlines(_)
splitlines(s) ==
    IF s = <<>> THEN <<>>
    ELSE LET ends == {k \in 1..Len(s) : s[k] = "\n"}
         IN  IF ends = {} THEN <<s>>
             ELSE LET k == CHOOSE e \in ends : \A f \in ends : e <= f
                  IN  <<SubSeq(s, 1, k - 1)>> \o splitlines(SubSeq(s, k + 1, Len(s)))

\* str.lstrip()
RECURSIVE lstrip(_)
lstrip(s) == IF s # <<>> /\ Head(s) = " " THEN lstrip(Tail(s)) ELSE s

\* "\n".join(lines)
RECURSIVE join(_)
join(ls) ==
    IF ls = <<>> THEN <<>>
    ELSE IF Len(ls) = 1 THEN ls[1]
         ELSE ls[1] \o <<"\n">> \o join(Tail(ls))

\* " " * leading
RECURSIVE Spaces(_)
Spaces(k) == IF k <= 0 THEN <<>> ELSE <<" ">> \o Spaces(k - 1)

\* any(line.lstrip().startswith("# ") for line in lines)
HasPrimary(ls) == \E i \in 1..Len(ls) : startswith(lstrip(ls[i]), <<"#", " ">>)

\* the lines that start, after leading blanks, with "## "
SubHeadings(ls) == {i \in 1..Len(ls) : startswith(lstrip(ls[i]), <<"#", "#", " ">>)}

\* (" " * leading) + "# " + stripped[3:]
PromotedLine(l) ==
    LET stripped == lstrip(l)
        leading == Len(l) - Len(stripped)
    IN  Spaces(leading) \o <<"#", " ">> \o SubSeq(stripped, 4, Len(stripped))

promote_primary_heading(s) ==
    LET ls == splitlines(s)
    IN  IF HasPrimary(ls) THEN s
        ELSE IF SubHeadings(ls) = {} THEN join(ls)
             ELSE LET i == CHOOSE e \in SubHeadings(ls) : \A f \in SubHeadings(ls) : e <= f
                  IN  join([ls EXCEPT ![i] = PromotedLine(ls[i])])

InitMarkdown ==
    /\ pc = "markdown"
    /\ EngineIdle
    /\ CacheIdle
    /\ markdown_text \in MdTexts
    /\ promoted = 0
    /\ markdown_footnotes = "append"
    /\ collected = <<>>
    /\ md_file = NoFile
    /\ MergeIdle

\* markdown_text = _promote_primary_heading(markdown_text)
PromotePrimaryHeading ==
    /\ pc = "markdown"
    /\ promoted < MaxPromote
    /\ markdown_text' = promote_primary_heading(markdown_text)
    /\ promoted' = promoted + 1
    /\ UNCHANGED <<pageAndPool, cacheVars, markdown_footnotes, collected, md_file,
                   mergeVars>>

NextMarkdown == PromotePrimaryHeading

SpecMarkdown == InitMarkdown /\ [][NextMarkdown]_vars

\* C20: when no line of the text starts, after leading blanks, with "# ", the
\* promotion rewrites the first line that starts with "## " to start with
\* "# " and leaves every other line of the text as it is; when a "# " line
\* exists the text is unchanged; a second promotion changes nothing.
C20_HeadingPromotion ==
    [][promoted' = promoted + 1 =>
         LET old == splitlines(markdown_text)
             new == splitlines(markdown_text')
         IN  /\ HasPrimary(old) => markdown_text' = markdown_text
             /\ (~HasPrimary(old) /\ SubHeadings(old) # {}) =>
                   /\ Len(new) = Len(old)
                   /\ \A i \in 1..Len(old) :
                         IF i \in SubHeadings(old) /\ \A f \in SubHeadings(old) : i <= f
                         THEN /\ startswith(lstrip(new[i]), <<"#", " ">>)
                              /\ Len(new[i]) = Len(old[i]) - 1
                         ELSE new[i] = old[i]
             /\ promoted >= 1 => markdown_text' = markdown_text]_vars

(***************************************************************************)
(* F. The Markdown export: the footnote modes.  reference_doc is None and  *)
(* no image is written; the document's text and boxes are what             *)
(* pymupdf4llm finds in it.                                                *)
(***************************************************************************)
FOOTNOTE_INLINE == "inline"
FOOTNOTE_APPEND == "append"
FOOTNOTE_DROP == "drop"
FOOTNOTE_MODES == {FOOTNOTE_INLINE, FOOTNOTE_APPEND, FOOTNOTE_DROP}

\* the values passed as markdown_footnotes
ModesAsked == FOOTNOTE_MODES \cup {"keep"}

\* the texts parsed_doc.to_markdown returns
ExportBodies ==
    { <<>>,
      <<"a">>,
      <<"#", "#", " ", "a", "\n">>,
      <<"#", " ", "a", "\n", "a">>,
      <<"a", "\n", "\n">> }

\* the texts of footnote boxes and entries: a note, a note followed by
\* blank lines, a blank text
FootTexts == { <<"x">>, <<"x", "\n", "\n">>, <<" ">> }

footnote == <<"f", "o", "o", "t", "n", "o", "t", "e">>
page_footer == <<"p", "a", "g", "e", "-", "f", "o", "o", "t", "e", "r">>

\* _FootnoteEntry
FootnoteEntry(page_number, kind, markdown) ==
    [page_number |-> page_number, kind |-> kind, markdown |-> markdown]

Entries ==
    { FootnoteEntry(n, k, md) : n \in 1..2, k \in {footnote, page_footer}, md \in FootTexts }

\* the boxes of the document's pages, by boxclass: footnotes, page footers
\* and text
Boxes == Entries \cup { FootnoteEntry(1, <<"t", "e", "x", "t">>, <<"x">>) }

\* the boxes of a document, in page order
RECURSIVE PageOrdered(_)
PageOrdered(bs) ==
    Len(bs) <= 1 \/ (bs[1].page_number <= bs[2].page_number /\ PageOrdered(Tail(bs)))

Documents ==
    { bs \in UNION { [1..n -> Boxes] : n \in 0..MaxEntries } : PageOrdered(bs) }

EntryLists == UNION { [1..n -> Entries] : n \in 0..MaxEntries }

\* _extract_structural_footnotes
RECURSIVE extract_structural_footnotes(_, _, _)
extract_structural_footnotes(boxes, mode, capture) ==
    IF boxes = <<>> THEN <<>>
    ELSE LET box == Head(boxes)
             rest == extract_structural_footnotes(Tail(boxes), mode, capture)
         IN  IF /\ box.kind \in {footnote, page_footer}
                /\ capture
                /\ mode = FOOTNOTE_APPEND
                /\ Strip(box.markdown) # <<>>
             THEN <<FootnoteEntry(box.page_number, box.kind, Strip(box.markdown))>>
                  \o rest
             ELSE rest

\* str.replace("-", " ")
replace(s) == [k \in 1..Len(s) |-> IF s[k] = "-" THEN " " ELSE s[k]]

Letters == <<"a", "e", "f", "g", "n", "o", "p", "r", "t", "x">>
Capitals == <<"A", "E", "F", "G", "N", "O", "P", "R", "T", "X">>

IsLetter(c) == \E i \in 1..Len(Letters) : c \in {Letters[i], Capitals[i]}

upper(c) ==
    IF \E i \in 1..Len(Letters) : Letters[i] = c
    THEN Capitals[CHOOSE i \in 1..Len(Letters) : Letters[i] = c] ELSE c

lower(c) ==
    IF \E i \in 1..Len(Capitals) : Capitals[i] = c
    THEN Letters[CHOOSE i \in 1..Len(Capitals) : Capitals[i] = c] ELSE c

\* str.title(): a letter after a letter is lowered, any other letter raised
title(s) ==
    [k \in 1..Len(s) |->
        IF k > 1 /\ IsLetter(s[k - 1]) THEN lower(s[k]) ELSE upper(s[k])]

FootnotesHeading == <<"#", "#", "#", " ", "F", "o", "o", "t", "n", "o", "t", "e", "s">>

\* f"**Page {entry.page_number} · {kind_label}**"
PageLabel(entry) ==
    <<"*", "*", "P", "a", "g", "e", " ">> \o Str(entry.page_number)
        \o <<" ", "middot", " ">> \o title(replace(entry.kind)) \o <<"*", "*">>

\* the lines appended for the entries
RECURSIVE EntryLines(_)
EntryLines(entries) ==
    IF entries = <<>> THEN <<>>
    ELSE <<PageLabel(Head(entries)), <<>>, Strip(Head(entries).markdown), <<>>>>
         \o EntryLines(Tail(entries))

\* _format_footnote_section
format_footnote_section(entries) ==
    IF entries = <<>> THEN <<>>
    ELSE Strip(join(<<FootnotesHeading, <<>>>> \o EntryLines(entries))) \o <<"\n">>

\* what the export leaves alone
exportFrame == <<thread, sstk, fs, work_queue, threads, idle_semaphore, news, dead,
                 calls, failed, sent, ret, started, finished, pageVars, ctorVars,
                 cacheVars, promoted, markdown_footnotes, mergeVars>>

InitExport ==
    /\ pc = "export"
    /\ EngineIdle
    /\ CacheIdle
    /\ markdown_text = <<>>
    /\ promoted = 0
    /\ markdown_footnotes \in ModesAsked
    /\ collected = <<>>
    /\ md_file = NoFile
    /\ MergeIdle

\* _render_markdown_document(doc, ..., footnote_mode=markdown_footnotes,
\* collect_footnotes=True)
Render ==
    /\ pc = "export"
    /\ IF markdown_footnotes \notin FOOTNOTE_MODES
       THEN /\ pc' = "ValueError"
            /\ UNCHANGED <<markdown_text, collected>>
       ELSE /\ \E doc \in Documents, body \in ExportBodies :
                  /\ collected' =
                        IF markdown_footnotes # FOOTNOTE_INLINE
                        THEN extract_structural_footnotes(doc, markdown_footnotes, TRUE)
                        ELSE <<>>
                  /\ markdown_text' = body
            /\ pc' = "rendered"
    /\ UNCHANGED <<exportFrame, md_file>>

\* the renderer the tests put in its place: it returns entries whatever the
\* mode, which is one of the modes
fake_render ==
    /\ pc = "export"
    /\ markdown_footnotes \in FOOTNOTE_MODES
    /\ markdown_text' \in ExportBodies
    /\ collected' \in EntryLists
    /\ pc' = "rendered"
    /\ UNCHANGED <<exportFrame, md_file>>

\* the section appended whatever the mode
WriteMarkdownAnyMode ==
    /\ pc = "rendered"
    /\ \E text \in {promote_primary_heading(markdown_text)} :
          \E out \in {IF collected # <<>>
                      THEN RStrip(text) \o <<"\n", "\n">>
                               \o format_footnote_section(collected)
                      ELSE text} :
              /\ markdown_text' = out
              /\ md_file' = [exists |-> TRUE, text |-> out]
    /\ pc' = "written"
    /\ UNCHANGED <<exportFrame, collected>>

\* export_markdown after the rendering: the promotion, the section, the file
WriteMarkdown ==
    /\ pc = "rendered"
    /\ \E text \in {promote_primary_heading(markdown_text)} :
          \E out \in {IF markdown_footnotes = FOOTNOTE_APPEND /\ collected # <<>>
                      THEN RStrip(text) \o <<"\n", "\n">>
                               \o format_footnote_section(collected)
                      ELSE text} :
              /\ markdown_text' = out
              /\ md_file' = [exists |-> TRUE, text |-> out]
    /\ pc' = "written"
    /\ UNCHANGED <<exportFrame, collected>>

NextExport == Render \/ fake_render \/ WriteMarkdown

SpecExport == InitExport /\ [][NextExport]_vars

\* p occurs in s
Contains(s, p) ==
    \E k \in 0..(Len(s) - Len(p)) : SubSeq(s, k + 1, k + Len(p)) = p

\* the file holds the text of an entry
HoldsEntryText(text) ==
    \E k \in 1..Len(collected) :
        Strip(collected[k].markdown) # <<>> /\ Contains(text, Strip(collected[k].markdown))

\* what the file holds after the promoted text, its trailing blanks taken off
Section(text) ==
    SubSeq(md_file'.text, Len(RStrip(text)) + 1, Len(md_file'.text))

\* C21: the written file is the promoted text followed by a section headed
\* "### Footnotes" that holds every collected entry when the mode is
\* "append" and an entry was collected; in every other case the file is the
\* promoted text alone, with no "### Footnotes" and no text of a collected
\* entry in it; a mode outside {inline, append, drop} ends in ValueError with
\* no file written.
C21_FootnoteModes ==
    [][/\ markdown_footnotes \notin FOOTNOTE_MODES =>
             pc' = "ValueError" /\ ~md_file'.exists
       /\ pc' = "written" =>
             \E text \in {promote_primary_heading(markdown_text)} :
                 /\ md_file'.exists
                 /\ IF markdown_footnotes = "append" /\ collected # <<>>
                    THEN /\ startswith(md_file'.text, RStrip(text))
                         /\ startswith(Section(text),
                                       <<"\n", "\n">> \o FootnotesHeading \o <<"\n">>)
                         /\ \A k \in 1..Len(collected) :
                               /\ Contains(Section(text), PageLabel(collected[k]))
                               /\ Contains(Section(text), Strip(collected[k].markdown))
                    ELSE /\ md_file'.text = text
                         /\ ~Contains(md_file'.text, FootnotesHeading)
                         /\ ~HoldsEntryText(md_file'.text)]_vars

\* a file written in mode "append" with two entries of different kinds:
\* the text, an empty line, the section
C21_Witness ==
    /\ pc = "written"
    /\ markdown_footnotes = "append"
    /\ Len(collected) = 2
    /\ collected[1].kind # collected[2].kind
    /\ md_file.exists
    /\ startswith(md_file.text, <<"a", "\n", "\n">> \o FootnotesHeading)

(***************************************************************************)
(* G. The Markdown export: the merge of the reference Markdown and the     *)
(* translated Markdown, line by line.  A line is a sequence of characters. *)
(***************************************************************************)
PREFIX_CHARS == {"#", ">", "+", "-", "0", "1", "2", "3", "4", "5", "6", "7", "8", "9",
                 ".", " ", "\t"}

\* "backtick" stands for the grave accent
WRAPPER_TOKENS == << <<"*", "*">>, <<"_", "_">>, <<"~", "~">>, <<"backtick">>, <<"_">> >>

\* the patterns are anchored at the start; the last two ignore the case
PLACEHOLDER_PATTERNS ==
    << <<"*", "*", "=", "=", ">">>,
       <<"*", "*", "f", "i", "g", "u", "r", "e">>,
       <<"*", "*", "t", "a", "b", "l", "e">> >>

\* s.endswith(p)
endswith(s, p) == Len(s) >= Len(p) /\ SubSeq(s, Len(s) - Len(p) + 1, Len(s)) = p

\* str.rstrip(" ")
RECURSIVE rstrip(_)
rstrip(s) ==
    IF s # <<>> /\ Last(s) = " " THEN rstrip(SubSeq(s, 1, Len(s) - 1)) ELSE s

\* str.lstrip(chars) and str.strip(chars)
RECURSIVE LStripOf(_, _)
LStripOf(s, chars) ==
    IF s # <<>> /\ Head(s) \in chars THEN LStripOf(Tail(s), chars) ELSE s
RECURSIVE RStripOf(_, _)
RStripOf(s, chars) ==
    IF s # <<>> /\ Last(s) \in chars THEN RStripOf(SubSeq(s, 1, Len(s) - 1), chars) ELSE s

\* _is_placeholder
is_placeholder(line) ==
    LET normalized == Strip(line)
    IN  /\ normalized # <<>>
        /\ \/ startswith(normalized, PLACEHOLDER_PATTERNS[1])
           \/ \E k \in 2..3 :
                 startswith([j \in 1..Len(normalized) |-> lower(normalized[j])],
                            PLACEHOLDER_PATTERNS[k])

\* is_blank
is_blank(value) == Strip(value) = <<>>

\* _extract_prefix: the longest start of the line made of prefix characters
extract_prefix(line) ==
    LET stops == {k \in 1..Len(line) : line[k] \notin PREFIX_CHARS}
        idx == IF stops = {} THEN Len(line) ELSE SetMin(stops) - 1
    IN  [prefix |-> SubSeq(line, 1, idx), body |-> SubSeq(line, idx + 1, Len(line))]

\* _extract_wrappers: the tokens peeled from both ends, outermost first
RECURSIVE extract_wrappers(_)
extract_wrappers(text) ==
    IF text = <<>> THEN <<>>
    ELSE LET fit == {k \in 1..Len(WRAPPER_TOKENS) :
                        /\ startswith(text, WRAPPER_TOKENS[k])
                        /\ endswith(text, WRAPPER_TOKENS[k])
                        /\ Len(text) >= 2 * Len(WRAPPER_TOKENS[k])}
         IN  IF fit = {} THEN <<>>
             ELSE LET token == WRAPPER_TOKENS[SetMin(fit)]
                  IN  <<token>> \o extract_wrappers(
                          SubSeq(text, Len(token) + 1, Len(text) - Len(token)))

\* _apply_wrappers: "for token in reversed(wrappers)"
RECURSIVE apply_wrappers(_, _)
apply_wrappers(content, wrappers) ==
    IF wrappers = <<>> THEN content
    ELSE apply_wrappers(Last(wrappers) \o content \o Last(wrappers),
                        SubSeq(wrappers, 1, Len(wrappers) - 1))

\* _apply_reference_header
apply_reference_header(reference_line, translated_line) ==
    LET p0 == Strip(extract_prefix(reference_line).prefix)
        prefix == IF p0 = <<>> THEN <<"#", "#">> ELSE p0
        leading_ws == Len(translated_line) - Len(lstrip(translated_line))
        c0 == Strip(translated_line)
        core == IF c0 = <<>>
                THEN Strip(RStripOf(LStripOf(reference_line, {"#", " "}), {"#", " "}))
                ELSE Strip(LStripOf(c0, {"#", " "}))
    IN  Spaces(leading_ws) \o prefix \o <<" ">> \o core

\* the merge of a line that gives back the reference line
merge_lineReference(reference_line, translated_line) == reference_line

\* _merge_line
merge_line(reference_line, translated_line) ==
    IF reference_line = <<>> THEN translated_line
    ELSE IF translated_line = <<>> THEN reference_line
    ELSE IF startswith(Strip(translated_line), <<"!", "[", "]">>) THEN translated_line
    ELSE
      LET ref == extract_prefix(reference_line)
          trans == extract_prefix(translated_line)
          prefix0 == IF Strip(trans.prefix) # <<>> THEN trans.prefix ELSE <<>>
          ref_prefix_clean == Strip(ref.prefix)
          prefix == IF /\ prefix0 = <<>>
                       /\ ref_prefix_clean # <<>>
                       /\ ~startswith(ref_prefix_clean, <<"#">>)
                    THEN ref.prefix ELSE prefix0
          ref_wrappers == IF /\ ~startswith(Strip(prefix), <<"#">>)
                             /\ ~startswith(Strip(ref.prefix), <<"#">>)
                          THEN extract_wrappers(Strip(ref.body)) ELSE <<>>
          core == trans.body
          leading_ws == Len(core) - Len(lstrip(core))
          trailing_ws == Len(core) - Len(rstrip(core))
          existing_wrappers == extract_wrappers(Strip(trans.body))
          inner == IF /\ ref_wrappers # <<>>
                      /\ Strip(core) # <<>>
                      /\ existing_wrappers = <<>>
                      /\ ~startswith(Strip(prefix), <<"#">>)
                   THEN apply_wrappers(Strip(core), ref_wrappers)
                   ELSE Strip(core)
      IN  prefix \o Spaces(leading_ws) \o inner \o Spaces(trailing_ws)

\* lines of the reference Markdown and of the translated Markdown
RefLineSet ==
    { <<>>, <<"a">>, <<"#", " ", "a">>, <<"-", " ", "a">>, <<"*", "*", "a", "*", "*">>,
      <<"*", "*", "=", "=", ">">>, <<"*", "*", "F", "i", "g", "u", "r", "e">> }
TransLineSet ==
    { <<>>, <<" ">>, <<"b">>, <<"#", " ", "b">>, <<" ", "b", " ">>, <<"_", "b", "_">>,
      <<"!", "[", "]">> }

\* the texts: lines joined by line ends
MergeTexts(lineset, n) == {join(ls) : ls \in UNION {[1..k -> lineset] : k \in 0..n}}

\* every variable but pc, the text and those of the merge
mergeFrame == <<thread, sstk, fs, work_queue, threads, idle_semaphore, news, dead,
                calls, failed, sent, ret, started, finished, pageVars, ctorVars,
                cacheVars, promoted, markdown_footnotes, collected, md_file>>

\* the export is about to merge the two texts
InitMerge ==
    /\ pc = "rendered"
    /\ EngineIdle
    /\ CacheIdle
    /\ MarkdownIdle
    /\ MergeIdle

\* _merge_markdown(reference_text, translated_text), down to the loop
MergeMarkdown ==
    /\ pc = "rendered"
    /\ \E reference_text \in MergeTexts(RefLineSet, MaxRefLines),
          translated_text \in MergeTexts(TransLineSet, MaxTransLines) :
          /\ ref_lines' = splitlines(reference_text)
          /\ trans_lines' = splitlines(translated_text)
    /\ ref_idx' = 0
    /\ trans_idx' = 0
    /\ merged_lines' = <<>>
    /\ merged_from' = <<>>
    /\ pc' = "merge"
    /\ UNCHANGED <<mergeFrame, markdown_text>>

\* merged_lines.append(line) with the indices advanced by dr and dt
Emitted(line, dr, dt) ==
    /\ merged_lines' = Append(merged_lines, line)
    /\ merged_from' = Append(merged_from,
                             [ref |-> IF ref_idx < Len(ref_lines) THEN ref_idx + 1 ELSE 0,
                              trans |-> IF trans_idx < Len(trans_lines)
                                        THEN trans_idx + 1 ELSE 0])
    /\ ref_idx' = ref_idx + dr
    /\ trans_idx' = trans_idx + dt
    /\ UNCHANGED <<pc, markdown_text>>

\* "break", and the return after the loop
Returned ==
    /\ markdown_text' = join(merged_lines)
    /\ pc' = "merged"
    /\ UNCHANGED <<ref_idx, trans_idx, merged_lines, merged_from>>

\* one turn of "while ref_idx < ref_len or trans_idx < trans_len"
MergeStep ==
    /\ pc = "merge"
    /\ ref_idx < Len(ref_lines) \/ trans_idx < Len(trans_lines)
    /\ LET ref_len == Len(ref_lines)
           trans_len == Len(trans_lines)
           ref_line == IF ref_idx < ref_len THEN ref_lines[ref_idx + 1] ELSE <<>>
           trans_line == IF trans_idx < trans_len THEN trans_lines[trans_idx + 1] ELSE <<>>
           stripped_ref == Strip(ref_line)
           stripped_trans == Strip(trans_line)
           ref_blank == is_blank(ref_line)
           trans_blank == is_blank(trans_line)
           ref_header == startswith(stripped_ref, <<"#">>)
           trans_header == startswith(stripped_trans, <<"#">>)
       IN  IF is_placeholder(stripped_ref)
           THEN Emitted(trans_line, 1, IF trans_idx < trans_len THEN 1 ELSE 0)
           ELSE IF ref_idx >= ref_len THEN Emitted(trans_line, 0, 1)
           ELSE IF trans_idx >= trans_len THEN Returned
           ELSE IF ref_blank /\ trans_blank THEN Emitted(trans_line, 1, 1)
           ELSE IF ref_blank
                THEN /\ ref_idx' = ref_idx + 1
                     /\ UNCHANGED <<pc, markdown_text, trans_idx, merged_lines,
                                    merged_from>>
           ELSE IF trans_blank THEN Emitted(trans_line, 0, 1)
           ELSE IF ref_header /\ ~trans_header
                THEN IF trans_blank
                     THEN Emitted(apply_reference_header(ref_line, trans_line), 1, 1)
                     ELSE Emitted(trans_line, 1, 1)
           ELSE IF trans_header /\ ~ref_header THEN Emitted(trans_line, 1, 1)
           ELSE Emitted(merge_line(ref_line, trans_line), 1, 1)
    /\ UNCHANGED <<mergeFrame, ref_lines, trans_lines>>

\* the loop is over: return "\n".join(merged_lines)
MergeReturn ==
    /\ pc = "merge"
    /\ ~(ref_idx < Len(ref_lines) \/ trans_idx < Len(trans_lines))
    /\ Returned
    /\ UNCHANGED <<mergeFrame, ref_lines, trans_lines>>

NextMerge == MergeMarkdown \/ MergeStep \/ MergeReturn

SpecMerge == InitMerge /\ [][NextMerge]_vars

\* the translated lines the output lines were made from, in the order of the
\* output
TakenInOrder ==
    LET taken == SelectSeq(merged_from, LAMBDA e : e.trans # 0)
    IN  /\ Len(taken) = trans_idx
        /\ \A j \in 1..Len(taken) : taken[j].trans = j

\* the output line is the translated line, or the body of the translated
\* line in the wrappers of the reference line after a prefix of one of the two
OnlyDressed(line, translated_line, reference_line) ==
    \/ line = translated_line
    \/ \A ref \in {extract_prefix(reference_line)} :
       \A trans \in {extract_prefix(translated_line)} :
          \E prefix \in {<<>>, trans.prefix, ref.prefix} :
          \E wrappers \in {<<>>, extract_wrappers(Strip(ref.body))} :
              line = prefix
                     \o Spaces(Len(trans.body) - Len(lstrip(trans.body)))
                     \o apply_wrappers(Strip(trans.body), wrappers)
                     \o Spaces(Len(trans.body) - Len(rstrip(trans.body)))

\* the k-th output line was made from no translated line
Extra(k) == merged_from[k].trans = 0

\* the output so far: one line for each translated line taken, in order,
\* made of the translated line and of a prefix or wrappers of the reference
\* line; any other line is empty, stands for a placeholder line of the
\* reference and comes after the last translated line
MergedInOrder ==
    /\ Len(merged_from) = Len(merged_lines)
    /\ ref_idx <= Len(ref_lines)
    /\ trans_idx <= Len(trans_lines)
    /\ TakenInOrder
    /\ \A k \in 1..Len(merged_lines) :
          IF Extra(k)
          THEN /\ merged_lines[k] = <<>>
               /\ merged_from[k].ref # 0
               /\ is_placeholder(ref_lines[merged_from[k].ref])
               /\ Cardinality({j \in 1..(k - 1) : ~Extra(j)}) = Len(trans_lines)
          ELSE OnlyDressed(merged_lines[k], trans_lines[merged_from[k].trans],
                           IF merged_from[k].ref = 0 THEN <<>>
                           ELSE ref_lines[merged_from[k].ref])
    /\ pc = "merged" =>
          /\ trans_idx = Len(trans_lines)
          /\ markdown_text = join(merged_lines)

\* the lines not yet passed
Remaining(r, t) == (Len(ref_lines) - r) + (Len(trans_lines) - t)

\* a turn of the loop advances an index or leaves the loop, and goes back on
\* neither index: the lines not yet passed get fewer until it is left
Advances ==
    pc = "merge" =>
        /\ pc' = "merged" \/ ref_idx' > ref_idx \/ trans_idx' > trans_idx
        /\ pc' = "merged" \/ Remaining(ref_idx', trans_idx') < Remaining(ref_idx, trans_idx)
        /\ ref_idx' \in {ref_idx, ref_idx + 1}
        /\ trans_idx' \in {trans_idx, trans_idx + 1}
        /\ Len(merged_lines') >= Len(merged_lines)
        /\ ref_lines' = ref_lines
        /\ trans_lines' = trans_lines

\* C40: the merge comes to its end for every pair of texts: each turn of the
\* loop advances an index, neither of which passes the end of its list, or
\* leaves the loop; the translated lines are taken in
\* order and each gives exactly one output line, which is the translated line
\* with at most a prefix or wrappers of the reference line; the only other
\* output lines are empty lines for placeholder lines of the reference met
\* after the last translated line.
C40_MarkdownMerge == []MergedInOrder /\ [][Advances]_vars

\* a translated line took the wrappers of its reference line, and a
\* placeholder line of the reference gave an empty line after it
C40_Witness ==
    /\ pc = "merged"
    /\ Len(merged_lines) = 2
    /\ ~Extra(1)
    /\ merged_lines[1] = <<"*", "*", "b", "*", "*">>
    /\ Extra(2)

(***************************************************************************)
(* Claims about the dispatcher.                                            *)
(***************************************************************************)
\* what the worker computes for the i-th template
Computed(i) == IF WorkerBypass(sstk[i]) THEN sstk[i] ELSE ret[i]

\* some later template completed before an earlier one
OutOfOrderCompletion ==
    \E a, b \in 1..Len(finished) : a < b /\ finished[a] > finished[b]

\* C1: whatever the worker count, the interleaving and the order of
\* completion, the i-th element of the list the dispatcher builds is the
\* result computed for the i-th template, and the returned list is complete.
C1_ResultOrder ==
    /\ \A i \in 1..Len(news) :
          /\ news[i] = Computed(i)
          /\ ~WorkerBypass(sstk[i]) => \E a \in BackendAnswers :
                                          news[i] = Translated(a, sstk[i])
    /\ pc = "returned" => Len(news) = Len(sstk)

C1_Witness ==
    /\ pc = "returned"
    /\ Len(sstk) = 3
    /\ OutOfOrderCompletion
    /\ \E i \in 1..Len(sstk) : failed[i] > 0

InCall(i) == \E t \in 1..Len(threads) : threads[t].item = i /\ threads[t].st = "call"

\* C2: a template whose backend call failed K times and then succeeded has
\* had exactly K+1 calls and its successful output stands at its index; the
\* count of each template follows its own failures only.
C2_RetryCount ==
    \A i \in 1..Len(sstk) :
        i \notin dead =>
          /\ calls[i] = failed[i]
                          + (IF InCall(i) \/ (fs # <<>> /\ i <= Len(fs)
                                               /\ fs[i].st = "done"
                                               /\ ~WorkerBypass(sstk[i]))
                             THEN 1 ELSE 0)
          /\ (i <= Len(fs) /\ fs[i].st = "done" /\ ~WorkerBypass(sstk[i]))
                => fs[i].val = ret[i] /\ ret[i] # <<>>
          /\ i <= Len(news) => news[i] = Computed(i)

C2_Witness ==
    /\ pc = "returned"
    /\ \E i \in 1..Len(sstk) : failed[i] = 2 /\ calls[i] = 3 /\ news[i] = ret[i]
    /\ \E j \in 1..Len(sstk) : failed[j] = 0 /\ calls[j] = 1

\* the two shapes of template the dispatcher must not send to the backend
IsBlank(s) == \A k \in 1..Len(s) : IsSpace(s[k])
IsOnePlaceholder(s) ==
    /\ Len(s) >= 4
    /\ s[1] = "{" /\ s[2] = "v" /\ s[Len(s)] = "}"
    /\ \A k \in 3..(Len(s) - 1) : IsDigit(s[k])

C4_ErrorNeverSurfaced ==
    /\ pc # "raised"
    /\ \A i \in 1..Len(fs) : fs[i].st # "exc"
    /\ pc = "returned" =>
          \A i \in 1..Len(sstk) :
              ~WorkerBypass(sstk[i]) => ret[i] # <<>> /\ calls[i] > failed[i]

C4_Witness ==
    /\ pc = "returned"
    /\ thread = 1
    /\ Len(sstk) >= 2
    /\ \E i \in 1..Len(sstk) : failed[i] = 1

\* templates that reach a backend which fails on them forever
DeadCalled == {i \in dead : ~WorkerBypass(sstk[i])}

\* C5: if the backend fails only finitely often on every template, the
\* dispatcher eventually returns the complete list; if it fails forever on
\* a template that is sent to it, the dispatcher never returns and some
\* worker goes on retrying.
C5_DispatcherLiveness ==
    /\ (DeadCalled = {}) => <>(pc = "returned" /\ Len(news) = Len(sstk))
    /\ (DeadCalled # {}) =>
          /\ [](pc # "returned")
          /\ []<>(\E i \in DeadCalled : InCall(i))

C5_Witness ==
    /\ pc = "returned"
    /\ thread = 2
    /\ Len(sstk) = 3
    /\ \A i \in 1..Len(sstk) : failed[i] >= 1

Running == {i \in 1..Len(fs) : fs[i].st = "running"}

\* C6: never more than T templates are held by workers (in a backend call
\* or in the wait after a failed one), the pool never has more than T
\* threads, and templates are started in input order.
C6_BoundedParallelism ==
    /\ Len(threads) <= thread
    /\ Cardinality(Running) <= thread
    /\ Cardinality(Running) =
          Cardinality({t \in 1..Len(threads) : threads[t].st # "get"})
    /\ started = [k \in 1..Len(started) |-> k]

C6_Witness ==
    /\ thread = 2
    /\ Cardinality(Running) = 2
    /\ work_queue # <<>>
    /\ \E t \in 1..Len(threads) : threads[t].st = "wait"
    /\ \E t \in 1..Len(threads) : threads[t].st = "call"

====
